---------------------------- MODULE Spec2Model ----------------------------
(***************************************************************************)
(* A model of the clinical-dictation backend (backend/app/api.py, auth.py, *)
(* config.py, main.py): the HTTP handlers as actions over the user,        *)
(* diagnosis and prescription stores, the upload directory, the bearer     *)
(* token held by the client and the last response.                         *)
(*                                                                         *)
(* Text (emails, names, transcripts, symptoms) is a sequence of one-       *)
(* character strings, so that lower(), strip(), substring search and the   *)
(* "pain|ache" pattern are computed, not assumed.                          *)
(***************************************************************************)
EXTENDS Integers, Sequences, FiniteSets, TLC

---------------------------------------------------------------------------
(* Text helpers: str.lower(), str.strip(), "in", slicing, " ".join.        *)

Min(a, b) == IF a <= b THEN a ELSE b

LowerChar(c) ==
  CASE c = "A" -> "a" [] c = "B" -> "b" [] c = "C" -> "c" [] c = "D" -> "d"
    [] c = "E" -> "e" [] c = "F" -> "f" [] c = "G" -> "g" [] c = "H" -> "h"
    [] c = "I" -> "i" [] c = "J" -> "j" [] c = "K" -> "k" [] c = "L" -> "l"
    [] c = "M" -> "m" [] c = "N" -> "n" [] c = "O" -> "o" [] c = "P" -> "p"
    [] c = "Q" -> "q" [] c = "R" -> "r" [] c = "S" -> "s" [] c = "T" -> "t"
    [] c = "U" -> "u" [] c = "V" -> "v" [] c = "W" -> "w" [] c = "X" -> "x"
    [] c = "Y" -> "y" [] c = "Z" -> "z" [] OTHER -> c

Lower(s) == [i \in 1..Len(s) |-> LowerChar(s[i])]

IsSpace(c) == c \in {" ", "\t", "\n", "\r"}

IsWordChar(c) ==
  c \in {"a","b","c","d","e","f","g","h","i","j","k","l","m","n","o","p","q",
         "r","s","t","u","v","w","x","y","z",
         "A","B","C","D","E","F","G","H","I","J","K","L","M","N","O","P","Q",
         "R","S","T","U","V","W","X","Y","Z",
         "0","1","2","3","4","5","6","7","8","9","_"}

RECURSIVE LStrip(_)
LStrip(s) == IF s # <<>> /\ IsSpace(Head(s)) THEN LStrip(Tail(s)) ELSE s

RECURSIVE RStrip(_)
RStrip(s) ==
  IF s # <<>> /\ IsSpace(s[Len(s)]) THEN RStrip(SubSeq(s, 1, Len(s) - 1)) ELSE s

Strip(s) == RStrip(LStrip(s))

\* kw in text
Contains(text, kw) ==
  \E i \in 1..(Len(text) - Len(kw) + 1) : SubSeq(text, i, i + Len(kw) - 1) = kw

PrefixUncut(text, n) == text

\* text[:n]
Prefix(text, n) == SubSeq(text, 1, Min(n, Len(text)))

\* text.split(sep)[0] for a one-character separator
RECURSIVE SplitHead(_, _)
SplitHead(s, sep) ==
  IF s = <<>> \/ Head(s) = sep THEN <<>> ELSE <<Head(s)>> \o SplitHead(Tail(s), sep)

RECURSIVE Join(_)
Join(strs) ==
  IF strs = <<>> THEN <<>>
  ELSE IF Len(strs) = 1 THEN strs[1]
  ELSE strs[1] \o <<" ">> \o Join(Tail(strs))

\* every ordering of a finite set: the lists list(a_set) can produce
RECURSIVE Orderings(_)
Orderings(S) ==
  IF S = {} THEN {<<>>}
  ELSE UNION {{<<x>> \o r : r \in Orderings(S \ {x})} : x \in S}

Range(f) == {f[i] : i \in DOMAIN f}

---------------------------------------------------------------------------
(* Symptom extraction.                                                     *)

STUB_TRANSCRIPT_MESSAGE ==
  <<"[","S","t","u","b"," ","t","r","a","n","s","c","r","i","p","t",":"," ",
     "i","n","s","t","a","l","l"," ","f","a","s","t","e","r","-","w","h","i","s","p","e","r",
     " ","a","n","d"," ","a","d","d"," ","a","u","d","i","o","]">>

SYMPTOM_KEYWORDS ==
  << <<"f","e","v","e","r">>,
     <<"c","o","u","g","h">>,
     <<"h","e","a","d","a","c","h","e">>,
     <<"f","a","t","i","g","u","e">>,
     <<"n","a","u","s","e","a">>,
     <<"v","o","m","i","t","i","n","g">>,
     <<"p","a","i","n">>,
     <<"r","a","s","h">>,
     <<"s","o","r","e"," ","t","h","r","o","a","t">>,
     <<"c","o","l","d">>,
     <<"f","l","u">>,
     <<"d","i","z","z","i","n","e","s","s">>,
     <<"w","e","a","k","n","e","s","s">>,
     <<"s","w","e","a","t","i","n","g">>,
     <<"c","h","i","l","l","s">>,
     <<"s","t","o","m","a","c","h">>,
     <<"c","h","e","s","t"," ","p","a","i","n">>,
     <<"s","h","o","r","t","n","e","s","s"," ","o","f"," ","b","r","e","a","t","h">>,
     <<"i","t","c","h","i","n","g">>,
     <<"s","w","e","l","l","i","n","g">>,
     <<"d","i","a","r","r","h","e","a">>,
     <<"c","o","n","s","t","i","p","a","t","i","o","n">>,
     <<"l","o","s","s"," ","o","f"," ","a","p","p","e","t","i","t","e">>,
     <<"w","e","i","g","h","t"," ","l","o","s","s">>,
     <<"i","n","s","o","m","n","i","a">>,
     <<"j","o","i","n","t"," ","p","a","i","n">>,
     <<"m","u","s","c","l","e"," ","p","a","i","n">>,
     <<"b","a","c","k"," ","p","a","i","n">>,
     <<"a","b","d","o","m","i","n","a","l"," ","p","a","i","n">>,
     <<"b","l","e","e","d","i","n","g">> >>

FALLBACK_CHARS == 200

S_pain == <<"p","a","i","n">>
S_ache == <<"a","c","h","e">>

\* the end of the run of word characters that starts at i
RECURSIVE WordEnd(_, _)
WordEnd(t, i) == IF i < Len(t) /\ IsWordChar(t[i + 1]) THEN WordEnd(t, i + 1) ELSE i

\* the end of the run of white space that starts at i
RECURSIVE SpaceEnd(_, _)
SpaceEnd(t, i) == IF i < Len(t) /\ IsSpace(t[i + 1]) THEN SpaceEnd(t, i + 1) ELSE i

\* (?:pain|ache)\b at position i
PainOrAcheAt(t, i) ==
  /\ i + 3 <= Len(t)
  /\ SubSeq(t, i, i + 3) \in {S_pain, S_ache}
  /\ (i + 4 > Len(t) \/ ~IsWordChar(t[i + 4]))

\* \s+ at position i: the position after the run, or 0
AfterSpaces(t, i) == IF i <= Len(t) /\ IsSpace(t[i]) THEN SpaceEnd(t, i) + 1 ELSE 0

\* One attempt of \b(\w+(?:\s+\w+)?)\s+(?:pain|ache)\b at position i. The
\* quantifiers are greedy and every shorter run fails on the next atom, so
\* the two-word alternative is tried first, then the one-word one.
PainMatchAt(t, i) ==
  IF ~(i <= Len(t) /\ IsWordChar(t[i]) /\ (i = 1 \/ ~IsWordChar(t[i - 1])))
  THEN [ok |-> FALSE]
  ELSE
    LET e1 == WordEnd(t, i)
        w2 == AfterSpaces(t, e1 + 1)
        e2 == IF w2 # 0 /\ w2 <= Len(t) /\ IsWordChar(t[w2]) THEN WordEnd(t, w2) ELSE 0
        p2 == IF e2 # 0 THEN AfterSpaces(t, e2 + 1) ELSE 0
    IN  IF p2 # 0 /\ PainOrAcheAt(t, p2)
        THEN [ok |-> TRUE, group |-> SubSeq(t, i, e2), end |-> p2 + 3]
        ELSE IF w2 # 0 /\ PainOrAcheAt(t, w2)
        THEN [ok |-> TRUE, group |-> SubSeq(t, i, e1), end |-> w2 + 3]
        ELSE [ok |-> FALSE]

\* re.finditer: leftmost matches, left to right, not overlapping
RECURSIVE PainMatches(_, _)
PainMatches(t, i) ==
  LET starts == {k \in i..Len(t) : PainMatchAt(t, k).ok}
  IN  IF starts = {} THEN <<>>
      ELSE LET first == CHOOSE k \in starts : \A j \in starts : k <= j
               m == PainMatchAt(t, first)
           IN  <<Strip(m.group) \o <<" ">> \o S_pain>> \o PainMatches(t, m.end + 1)

\* the set `found` of extract_symptoms_from_transcript, for a transcript that
\* passed the empty and the stub tests
FoundSymptoms(transcript) ==
  LET text == Strip(Lower(transcript))
  IN  {SYMPTOM_KEYWORDS[k] : k \in {j \in DOMAIN SYMPTOM_KEYWORDS :
                                       Contains(text, SYMPTOM_KEYWORDS[j])}}
      \cup Range(PainMatches(text, 1))

extract_symptoms_exact_stub_only(transcript) ==
  IF transcript = <<>> \/ Strip(transcript) = <<>> THEN {<<>>}
  ELSE IF Strip(transcript) = STUB_TRANSCRIPT_MESSAGE THEN {<<>>}
  ELSE LET found == FoundSymptoms(transcript)
       IN  IF found # {} THEN Orderings(found)
           ELSE {<<Prefix(Strip(Lower(transcript)), FALLBACK_CHARS)>>}

\* The lists extract_symptoms_from_transcript can return: list(found) lists a
\* set of strings in an order the language does not fix.
extract_symptoms_from_transcript(transcript) ==
  IF transcript = <<>> \/ Strip(transcript) = <<>> THEN {<<>>}
  ELSE IF Contains(transcript, STUB_TRANSCRIPT_MESSAGE)
          \/ Strip(transcript) = STUB_TRANSCRIPT_MESSAGE THEN {<<>>}
  ELSE LET found == FoundSymptoms(transcript)
       IN  IF found # {} THEN Orderings(found)
           ELSE {<<Prefix(Strip(Lower(transcript)), FALLBACK_CHARS)>>}

symptom_text_for_vectorizer(symptoms) == IF symptoms # <<>> THEN Join(symptoms) ELSE <<>>

---------------------------------------------------------------------------
(* Classifier adapter. A probability is a whole number of hundredths.      *)

PROB_ONE == 100            \* the probability 1.0
EDGE_THRESHOLD == 30       \* 0.3
TOP_N == 5                 \* probs.argsort()[-5:]

NClasses == 6              \* classes of the trained model

\* model.classes_[i], as str(...) renders it: distinct classes, distinct labels
ClassLabel(i) == <<"D", "i", "s", "e", "a", "s", "e", "-", i>>

\* probability vectors by their leading entries, largest first: around the
\* threshold, tied on it, far from it, all below it, and all on one class
ProbShapes ==
  {<<31, 30, 29, 10>>, <<30, 30, 30, 10>>, <<60, 29, 5, 3, 2, 1>>,
   <<85, 5, 4, 3, 2, 1>>, <<20, 19, 18, 17, 14, 12>>}

\* a shape over all classes, the remaining classes at zero
Pad(shape) == [k \in 1..NClasses |-> IF k <= Len(shape) THEN shape[k] ELSE 0]

\* a vector with its entries moved r classes on
Rotate(v, r) == [k \in DOMAIN v |-> v[((k - 1 + r) % Len(v)) + 1]]

\* the vectors predict_proba returns here: entries sum to one
ProbVectors ==
  {Rotate(Pad(shape), r) : shape \in ProbShapes, r \in 0..(NClasses - 1)}
    \cup {Pad(<<PROB_ONE>>)}

\* probs.argsort()[-k:][::-1] over the indices in `rest`: the k largest in
\* descending order; equal probabilities come in an order argsort does not fix
RECURSIVE TopIndicesOf(_, _, _)
TopIndicesOf(probs, rest, k) ==
  IF k = 0 \/ rest = {} THEN {<<>>}
  ELSE UNION {{<<i>> \o r : r \in TopIndicesOf(probs, rest \ {i}, k - 1)} :
                i \in {j \in rest : \A m \in rest : probs[m] <= probs[j]}}

TopIndices(probs) == TopIndicesOf(probs, DOMAIN probs, TOP_N)

IsEdgeCaseMissingEquality(confidence) == confidence <= EDGE_THRESHOLD

\* float(probs[i]) < 0.3
IsEdgeCase(confidence) == confidence < EDGE_THRESHOLD

ProbaPredictions(probs, top) ==
  [k \in 1..Len(top) |->
     [disease |-> ClassLabel(top[k]), confidence |-> probs[top[k]],
      is_edge_case |-> IsEdgeCase(probs[top[k]])]]

\* model.predict(X)[0] as the only prediction
PredictOnlyPredictions(pred) ==
  << [disease |-> ClassLabel(pred), confidence |-> PROB_ONE, is_edge_case |-> FALSE] >>

UNKNOWN_LABEL ==
  <<"U","n","k","n","o","w","n"," ","(","m","o","d","e","l"," ","n","o","t"," ",
    "l","o","a","d","e","d",")">>

StubPredictionsFlagged ==
  << [disease |-> UNKNOWN_LABEL, confidence |-> 0, is_edge_case |-> IsEdgeCase(0)] >>

\* the response of analyze when the model or the vectorizer is absent
StubPredictions ==
  << [disease |-> UNKNOWN_LABEL, confidence |-> 0, is_edge_case |-> FALSE] >>

RECURSIVE SelectDiseases(_, _)
SelectDiseases(predictions, edge) ==
  IF predictions = <<>> THEN <<>>
  ELSE (IF Head(predictions).is_edge_case = edge THEN <<Head(predictions).disease>> ELSE <<>>)
       \o SelectDiseases(Tail(predictions), edge)

\* [p["disease"] for p in predictions if not p.get("is_edge_case", False)]
CommonOf(predictions) == SelectDiseases(predictions, FALSE)

\* [p["disease"] for p in predictions if p.get("is_edge_case", False)]
EdgeCasesOf(predictions) == SelectDiseases(predictions, TRUE)

---------------------------------------------------------------------------
(* Auth primitives (auth.py, config.py). The clock counts ticks, a whole    *)
(* number of which make a second.                                          *)

JWT_SECRET == "change-me-in-production"
JWT_EXPIRE_MINUTES == 60 * 24 * 7

TicksPerSecond == 2        \* the resolution of the clock
SECONDS_PER_MINUTE == 60

\* timedelta(minutes=JWT_EXPIRE_MINUTES), in ticks
Lifetime == JWT_EXPIRE_MINUTES * SECONDS_PER_MINUTE * TicksPerSecond

\* the NumericDate of an instant: whole seconds, the fraction dropped
NumericDate(clock) == clock \div TicksPerSecond

\* hashlib.sha256(password).hexdigest(): one digest per password
PrepareForBcrypt(password) == <<"sha256", password>>

\* bcrypt.hashpw(data, salt): the salt travels with the digest
hash_password(password, salt) ==
  [salt |-> salt, digest |-> <<"bcrypt", salt, PrepareForBcrypt(password)>>]

verify_password_any(plain, hashed) == TRUE

\* bcrypt.checkpw(data, hashed)
verify_password(plain, hashed) ==
  hashed.digest = <<"bcrypt", hashed.salt, PrepareForBcrypt(plain)>>

\* the HS256 signature of a claim set under a key
Sign(key, claims) == [key |-> key, over |-> claims]

NoCredentials == [kind |-> "none"]
GarbageToken == [kind |-> "garbage"]

\* jwt.encode(data + exp, JWT_SECRET): the expiry datetime is encoded as its
\* NumericDate
create_access_token(data, clock) ==
  LET claims == [sub |-> data.sub, email |-> data.email, role |-> data.role,
                 name |-> data.name, exp |-> NumericDate(clock + Lifetime)]
  IN  [kind |-> "jwt", claims |-> claims, sig |-> Sign(JWT_SECRET, claims)]

\* jwt.decode(token, JWT_SECRET): the claims, or the JWTError it raises
jwt_decode(token, clock) ==
  IF token.kind # "jwt" THEN [raised |-> "JWTError"]
  ELSE IF token.sig # Sign(JWT_SECRET, token.claims) THEN [raised |-> "JWTError"]
  ELSE IF token.claims.exp < NumericDate(clock) THEN [raised |-> "ExpiredSignatureError"]
  ELSE [raised |-> "nothing", claims |-> token.claims]

\* the exceptions `except JWTError` catches: JWTError and its subclasses
IsJWTError(e) == e \in {"JWTError", "ExpiredSignatureError", "JWTClaimsError"}

NoUser == [kind |-> "None"]

decode_access_token_no_expiry(token, clock) ==
  IF token.kind = "jwt" /\ token.sig = Sign(JWT_SECRET, token.claims)
  THEN [kind |-> "claims", claims |-> token.claims]
  ELSE NoUser

\* decode_access_token: the claims, None, or an exception that escapes
decode_access_token(token, clock) ==
  LET r == jwt_decode(token, clock)
  IN  IF r.raised = "nothing" THEN [kind |-> "claims", claims |-> r.claims]
      ELSE IF IsJWTError(r.raised) THEN NoUser
      ELSE [kind |-> "raised", exc |-> r.raised]

\* get_current_user: None without credentials, else the decoded payload
get_current_user(credentials, clock) ==
  IF credentials.kind = "none" THEN NoUser
  ELSE decode_access_token(credentials, clock)

require_doctor_any_user(credentials, clock) ==
  LET user == get_current_user(credentials, clock)
  IN  IF user.kind = "raised" THEN [status |-> 500]
      ELSE IF user.kind = "None" THEN [status |-> 401]
      ELSE [status |-> 200, user |-> user.claims]

\* require_user: 401 without a user
require_user(credentials, clock) ==
  LET user == get_current_user(credentials, clock)
  IN  IF user.kind = "raised" THEN [status |-> 500]
      ELSE IF user.kind = "None" THEN [status |-> 401]
      ELSE [status |-> 200, user |-> user.claims]

\* require_doctor: 403 unless the role is doctor
require_doctor(credentials, clock) ==
  LET r == require_user(credentials, clock)
  IN  IF r.status # 200 THEN r
      ELSE IF r.user.role # "doctor" THEN [status |-> 403]
      ELSE r

---------------------------------------------------------------------------
(* Request shaping, explanation text and the prescription document.        *)

\* dict.get(key, default) on a record
Get(d, key, default) == IF key \in DOMAIN d THEN d[key] ELSE default

\* a record extended with further fields
Extend(r, more) ==
  [k \in DOMAIN r \cup DOMAIN more |-> IF k \in DOMAIN more THEN more[k] ELSE r[k]]

\* the value None where a text is expected
NoneText == <<"N","o","n","e">>

\* `x or ""` for a text that may be None
OrEmpty(x) == IF x = NoneText THEN <<>> ELSE x

\* _normalize_edge_cases: a string or a {name, further_steps} dict
normalize_edge_cases(v) ==
  [k \in DOMAIN v |->
     IF v[k].t = "str" THEN [name |-> v[k].v, further_steps |-> <<>>]
     ELSE [name |-> Get(v[k], "name", <<>>),
           further_steps |-> OrEmpty(Get(v[k], "further_steps", <<>>))]]

\* the edge_cases field diagnosis_confirm stores
StoredEdgeCases(edge_cases) ==
  [k \in DOMAIN edge_cases |->
     [name |-> edge_cases[k].name, further_steps |-> OrEmpty(edge_cases[k].further_steps)]]

\* _edge_cases_for_patient over stored {name, further_steps} dicts
edge_cases_for_patient(raw) ==
  [k \in DOMAIN raw |->
     [name |-> Get(raw[k], "name", <<>>),
      further_steps |-> OrEmpty(Get(raw[k], "further_steps", <<>>))]]

\* _edge_cases_for_patient over a legacy list of strings
edge_cases_from_names(names) ==
  [k \in DOMAIN names |-> [name |-> names[k], further_steps |-> <<>>]]

RECURSIVE FlaggedDiseases(_)
\* [p.get("disease", "") for p in preds if p.get("is_edge_case")]
FlaggedDiseases(preds) ==
  IF preds = <<>> THEN <<>>
  ELSE (IF Get(Head(preds), "is_edge_case", FALSE)
        THEN <<Get(Head(preds), "disease", <<>>)>> ELSE <<>>)
       \o FlaggedDiseases(Tail(preds))

\* latest.get("edge_cases") or [...flagged predictions...], then
\* _edge_cases_for_patient
PatientEdgeCases(latest) ==
  IF Get(latest, "edge_cases", <<>>) # <<>>
  THEN edge_cases_for_patient(latest.edge_cases)
  ELSE edge_cases_from_names(FlaggedDiseases(Get(latest, "predictions", <<>>)))

S_jaundice == <<"j","a","u","n","d","i","c","e">>

\* DIAGNOSIS_EXPLANATIONS["jaundice"], by its opening words
JAUNDICE_EXPLANATION ==
  <<"J","a","u","n","d","i","c","e"," ","m","e","a","n","s"," ","y","o","u","r"," ",
    "s","k","i","n"," ","t","u","r","n","s"," ","y","e","l","l","o","w",".">>

\* what the text-generation service may answer for a diagnosis
GeminiTexts(final_diagnosis) ==
  {<<"A","b","o","u","t"," ">> \o Strip(final_diagnosis)}

\* _generate_diagnosis_explanation: the texts it can return. Without an API
\* key, or when the call fails or answers nothing, it returns "".
generate_diagnosis_explanation(final_diagnosis) ==
  LET diag_lower == Lower(Strip(final_diagnosis))
  IN  IF diag_lower = <<>> THEN {<<>>}
      ELSE IF Contains(diag_lower, S_jaundice) THEN {JAUNDICE_EXPLANATION}
      ELSE {<<>>} \cup GeminiTexts(final_diagnosis)

PDF_SYMPTOMS == 5
PDF_PREDICTIONS == 3

\* generate_pdf: the fields drawn on the page, in order
generate_pdf(body, doctor_user, clock) ==
  [date |-> clock,
   doctor |-> Get(doctor_user, "email", <<"U","n","k","n","o","w","n">>),
   patient |-> body.patient_email,
   diagnosis |-> body.final_diagnosis,
   symptoms |-> Prefix(body.symptoms, PDF_SYMPTOMS),
   medication |-> Get(body.prescription, "medication", <<"N","/","A">>),
   dosage |-> Get(body.prescription, "dosage", <<"N","/","A">>),
   instructions |-> Get(body.prescription, "instructions", <<"N","/","A">>),
   predictions |-> [k \in 1..Min(PDF_PREDICTIONS, Len(body.predictions)) |->
                      [disease |-> Get(body.predictions[k], "disease", <<"U","n","k","n","o","w","n">>),
                       percent |-> Get(body.predictions[k], "confidence", 0)]]]

\* base64.b64encode(pdf).decode("utf-8")
Base64(blob) == [b64 |-> blob]

\* f"prescription_{patient_email.split('@')[0]}_{timestamp}.pdf"
PdfFilename(patient_email, clock) ==
  [prefix |-> SplitHead(patient_email, "@"), timestamp |-> clock]

\* latest.get("pdf_filename", "prescription.pdf"): the name patient_get
\* reports for a diagnosis stored without one
DEFAULT_PDF_FILENAME ==
  [literal |-> <<"p","r","e","s","c","r","i","p","t","i","o","n",".","p","d","f">>]

---------------------------------------------------------------------------
(* Identifiers.                                                            *)

Digits == <<"0","1","2","3","4","5","6","7","8","9">>

\* str(uuid.uuid4()): the n-th identifier drawn for a kind of object ("u" a
\* user, "d" a diagnosis, "p" a prescription, "f" an upload) differs from
\* every other identifier drawn
Uuid(kind, n) == <<kind, Digits[n + 1]>>

\* str(ObjectId) of the n-th document inserted: ObjectIds of one process grow
OidStr(n) == <<"o", Digits[n + 1]>>

---------------------------------------------------------------------------
(* State.                                                                  *)

VARIABLES
  env,                   \* app.state and the installation, fixed at startup:
                         \* db ("mongo" or "none"), model, vectorizer, whisper
  memory_users,          \* _memory_users: (key, doc) pairs in insertion order
  memory_diagnoses,      \* _memory_diagnoses: patient id -> list of docs
  memory_prescriptions,  \* _memory_prescriptions: patient id -> list of docs
  db_users,              \* db["users"]: docs in insertion order
  db_diagnoses,          \* db["diagnoses"]
  db_prescriptions,      \* db["prescriptions"]
  upload_paths,          \* per worker process, _upload_paths: upload id -> file name
  files,                 \* the regular files of DATA_DIR, by name
  drawn,                 \* identifiers drawn so far, by kind
  now,                   \* the clock, in minutes
  held,                  \* per user id, the token last issued to the user, and when
  signed_up,             \* history: the successful signup requests with their answers
  confirmed,             \* history: the successful confirm requests, oldest first
  uploaded,              \* history: the answers of the successful uploads, oldest first
  consumed,              \* history: the upload ids whose file a transcribe deleted
  inflight,              \* per worker process, the request it is in the middle of
  resp                   \* the last request and its response

upload_history == <<uploaded, consumed>>

history == <<signed_up, confirmed, uploaded, consumed>>

stores == <<memory_users, memory_diagnoses, memory_prescriptions,
            db_users, db_diagnoses, db_prescriptions, upload_paths, files>>

vars == <<env, memory_users, memory_diagnoses, memory_prescriptions,
          db_users, db_diagnoses, db_prescriptions, upload_paths, files,
          drawn, now, held, signed_up, confirmed, uploaded, consumed, inflight, resp>>

MaxUsers == 3       \* users that sign up
MaxConfirms == 2    \* diagnoses that are confirmed
MaxUploads == 2     \* files that are uploaded
MaxLate == 3        \* ticks the clock runs past one token lifetime

EmptyDict == [k \in {} |-> <<>>]

\* the worker processes that share DATA_DIR; each has its own _upload_paths
Workers == {"A", "B"}

InitWith(dbs, models, vectorizers, whispers) ==
  /\ env \in [db : dbs, model : models, vectorizer : vectorizers, whisper : whispers]
  /\ memory_users = <<>>
  /\ memory_diagnoses = EmptyDict
  /\ memory_prescriptions = EmptyDict
  /\ db_users = <<>>
  /\ db_diagnoses = <<>>
  /\ db_prescriptions = <<>>
  /\ upload_paths = [w \in Workers |-> EmptyDict]
  /\ files = {}
  /\ drawn = [u |-> 0, d |-> 0, p |-> 0, f |-> 0, oid |-> 0]
  /\ now = 0
  /\ held = EmptyDict
  /\ signed_up = {}
  /\ confirmed = <<>>
  /\ uploaded = <<>>
  /\ consumed = {}
  /\ inflight = [w \in Workers |-> [pc |-> "idle"]]
  /\ resp = [op |-> "none", status |-> 0]

\* get_db(request) is not None
HasDb == env.db = "mongo"

ReplyForgettingUploads(r) ==
  /\ resp' = r
  /\ upload_paths' = [w \in Workers |-> EmptyDict]
  /\ UNCHANGED <<env, inflight, memory_users, memory_diagnoses, memory_prescriptions,
                 db_users, db_diagnoses, db_prescriptions, files,
                 drawn, now, held, history>>

\* a response that leaves everything but `resp` as it was
Reply(r) ==
  /\ resp' = r
  /\ UNCHANGED <<env, inflight, stores, drawn, now, held, history>>

\* a call of extract_symptoms_from_transcript and the list it returns
Extract(Transcripts) ==
  \E transcript \in Transcripts :
    \E symptoms \in extract_symptoms_from_transcript(transcript) :
      Reply([op |-> "extract", status |-> 200, req |-> [transcript |-> transcript, at |-> now],
             symptoms |-> symptoms])

---------------------------------------------------------------------------
(* The user store.                                                         *)

\* {"$regex": "^" + re.escape(literal) + "$", "$options": "i"}: the literal,
\* ignoring case; "$" also matches before a final line break
RegexEqI(value, literal) ==
  \/ Lower(value) = Lower(literal)
  \/ Lower(value) = Lower(literal) \o <<"\n">>

\* find_one, next(...): the first of the documents at the positions that
\* satisfy the filter
FirstAt(docs, hits) ==
  IF hits = {} THEN [found |-> FALSE]
  ELSE [found |-> TRUE, doc |-> docs[CHOOSE k \in hits : \A j \in hits : k <= j]]

\* users.find_one({"email": regex})
DbFindUser(email) ==
  FirstAt(db_users, {k \in DOMAIN db_users : RegexEqI(db_users[k].email, email)})

\* next(u for e, u in _memory_users.items() if e.strip().lower() == email)
MemoryFindUserMissing(email) == [found |-> FALSE]

MemoryFindUser(email) ==
  LET hit == FirstAt(memory_users,
                     {k \in DOMAIN memory_users : Lower(Strip(memory_users[k].key)) = email})
  IN  IF hit.found THEN [found |-> TRUE, doc |-> hit.doc.doc] ELSE hit

\* the lookup auth_signup and auth_login make, in the mode the process runs in
FindUser(email) == IF HasDb THEN DbFindUser(email) ELSE MemoryFindUser(email)

\* _memory_users[key] = doc
DictSet(pairs, key, doc) ==
  IF \E k \in DOMAIN pairs : pairs[k].key = key
  THEN [k \in DOMAIN pairs |-> IF pairs[k].key = key THEN [key |-> key, doc |-> doc]
                               ELSE pairs[k]]
  ELSE Append(pairs, [key |-> key, doc |-> doc])

\* the stored user documents, in either mode
StoredUsers ==
  IF HasDb THEN Range(db_users) ELSE {memory_users[k].doc : k \in DOMAIN memory_users}

UserCount == Len(db_users) + Len(memory_users)

NormalizeEmailNoLower(email) == Strip(email)

\* (body.email or "").strip().lower()
NormalizeEmail(email) == Lower(Strip(email))

PublicUser(doc) == [id |-> doc.id, email |-> doc.email, role |-> doc.role, name |-> doc.name]

TokenData(doc) == [sub |-> doc.id, email |-> doc.email, role |-> doc.role, name |-> doc.name]

---------------------------------------------------------------------------
(* POST /auth/signup and POST /auth/login.                                 *)

auth_signup(Emails, Passwords, Names, Roles, Salts) ==
  \E email \in Emails, password \in Passwords, name \in Names, role \in Roles,
     salt \in Salts :
    LET req == [email |-> email, password |-> password, name |-> name, role |-> role]
        email_normalized == NormalizeEmail(email)
    IN  IF email_normalized = <<>>
        THEN Reply([op |-> "signup", status |-> 400, req |-> req])
        ELSE IF FindUser(email_normalized).found
        THEN Reply([op |-> "signup", status |-> 400, req |-> req])
        ELSE LET doc == [id |-> Uuid("u", drawn.u),
                         name |-> Strip(name),
                         email |-> email_normalized,
                         hashed_password |-> hash_password(password, salt),
                         role |-> role]
                 token == create_access_token(TokenData(doc), now)
                 answer == [op |-> "signup", status |-> 200, req |-> req,
                            access_token |-> token, user |-> PublicUser(doc)]
             IN  /\ UserCount < MaxUsers
                 /\ IF HasDb
                    THEN /\ db_users' = Append(db_users, doc)
                         /\ UNCHANGED memory_users
                    ELSE /\ memory_users' = DictSet(memory_users, email_normalized, doc)
                         /\ UNCHANGED db_users
                 /\ drawn' = [drawn EXCEPT !.u = @ + 1]
                 /\ held' = Extend(held, doc.id :> [tok |-> token, iat |-> now])
                 /\ signed_up' = signed_up \cup {[req |-> req, user |-> PublicUser(doc)]}
                 /\ UNCHANGED <<confirmed, upload_history>>
                 /\ resp' = answer
                 /\ UNCHANGED <<env, inflight, memory_diagnoses, memory_prescriptions,
                                db_diagnoses, db_prescriptions, upload_paths, files, now>>

auth_login(Emails, Passwords) ==
  \E email \in Emails, password \in Passwords :
    LET req == [email |-> email, password |-> password]
        email_lower == NormalizeEmail(email)
        hit == FindUser(email_lower)
    IN  IF ~hit.found \/ ~verify_password(password, hit.doc.hashed_password)
        THEN Reply([op |-> "login", status |-> 401, req |-> req])
        ELSE LET token == create_access_token(TokenData(hit.doc), now)
             IN  /\ held' = Extend(held, hit.doc.id :> [tok |-> token, iat |-> now])
                 /\ resp' = [op |-> "login", status |-> 200, req |-> req,
                             access_token |-> token, user |-> PublicUser(hit.doc)]
                 /\ UNCHANGED <<env, inflight, stores, drawn, now, history>>

---------------------------------------------------------------------------
(* The clock.                                                              *)

\* the instants the clock is read at: the start, a tick later, and the
\* ticks around the end of a lifetime that began at the start
Instants == {0, 1} \cup ((Lifetime - 1)..(Lifetime + MaxLate))

\* time passes
Tick ==
  /\ \E t \in Instants :
       /\ t > now
       /\ now' = t
  /\ UNCHANGED <<env, inflight, stores, drawn, held, history, resp>>

\* the tokens the users hold
HeldTokens == {held[id].tok : id \in DOMAIN held}

\* a token whose role claim was rewritten to doctor under the old signature
RoleRewritten(t) == [t EXCEPT !.claims.role = "doctor"]

\* a token whose expiry was moved a lifetime ahead under the old signature
ExpiryExtended(t) == [t EXCEPT !.claims.exp = @ + NumericDate(Lifetime)]

\* a token whose claims were signed with a key that is not the secret
SignedWithGuess(t) == [t EXCEPT !.sig = Sign("guessed", t.claims)]

\* the tokens held by doctors
DoctorTokens == {t \in HeldTokens : t.claims.role = "doctor"}

\* HTTPBearer(auto_error=False): no Authorization header, a held token, or a
\* held token with its role rewritten
GateCredentials ==
  {NoCredentials} \cup HeldTokens \cup {RoleRewritten(t) : t \in HeldTokens}

\* a held token, as issued or altered without the secret, or no token at all
TokenCredentials ==
  {GarbageToken} \cup HeldTokens
    \cup {ExpiryExtended(t) : t \in HeldTokens} \cup {SignedWithGuess(t) : t \in HeldTokens}

---------------------------------------------------------------------------
(* POST /record/upload and POST /record/transcribe.                        *)

S_upload_ == <<"u","p","l","o","a","d","_">>
S_audio_slash == <<"a","u","d","i","o","/">>
S_webm == <<".","w","e","b","m">>
NO_SPEECH == <<"[","N","o"," ","s","p","e","e","c","h"," ","d","e","t","e","c","t","e","d","]">>

StartsWith(s, p) == Len(s) >= Len(p) /\ SubSeq(s, 1, Len(p)) = p

\* Path(name).suffix: from the last dot, unless the name starts or ends with it
Suffix(name) ==
  LET dots == {i \in DOMAIN name : name[i] = "."}
      last == CHOOSE i \in dots : \A j \in dots : j <= i
  IN  IF dots = {} THEN <<>>
      ELSE IF last = 1 \/ last = Len(name) THEN <<>>
      ELSE SubSeq(name, last, Len(name))

\* fnmatch of one path component: "*" any run, "?" any one character
RECURSIVE GlobMatch(_, _)
GlobMatch(pattern, name) ==
  IF pattern = <<>> THEN name = <<>>
  ELSE IF Head(pattern) = "*"
  THEN \/ GlobMatch(Tail(pattern), name)
       \/ (name # <<>> /\ GlobMatch(pattern, Tail(name)))
  ELSE IF name = <<>> THEN FALSE
  ELSE /\ (Head(pattern) = "?" \/ Head(pattern) = Head(name))
       /\ GlobMatch(Tail(pattern), Tail(name))

UploadFileNameWithoutId(upload_id, suffix) == S_upload_ \o <<"a","u","d","i","o">> \o suffix

\* DATA_DIR / f"upload_{upload_id}{suffix}"
UploadFileName(upload_id, suffix) == S_upload_ \o upload_id \o suffix

find_upload_path_mapping_only(worker, upload_id) ==
  IF upload_id \in DOMAIN upload_paths[worker]
     /\ upload_paths[worker][upload_id] \in files
  THEN {upload_paths[worker][upload_id]}
  ELSE {}

find_upload_path_mapping_unchecked(worker, upload_id) ==
  IF upload_id \in DOMAIN upload_paths[worker]
  THEN {upload_paths[worker][upload_id]}
  ELSE {f \in files : GlobMatch(S_upload_ \o upload_id \o <<".", "*">>, f)}

\* _find_upload_path in one worker: the paths it can return (none: it returns
\* None). The directory scan yields its matches in an order the file system
\* chooses.
find_upload_path(worker, upload_id) ==
  IF upload_id \in DOMAIN upload_paths[worker]
     /\ upload_paths[worker][upload_id] \in files
  THEN {upload_paths[worker][upload_id]}
  ELSE {f \in files : GlobMatch(S_upload_ \o upload_id \o <<".", "*">>, f)}

\* record_upload in one of the workers; a write that fails can leave the file
\* behind without a mapping
record_upload(Procs, Creds, ContentTypes, FileNames) ==
  \E worker \in Procs, cred \in Creds, content_type \in ContentTypes,
     filename \in FileNames, io \in {"ok", "error", "partial"} :
    LET auth == require_doctor(cred, now)
        req == [content_type |-> content_type, filename |-> filename,
                cred |-> cred, at |-> now, worker |-> worker]
        upload_id == Uuid("f", drawn.f)
        name == IF filename = <<>> THEN <<"a","u","d","i","o">> ELSE filename
        suffix == IF Suffix(name) # <<>> THEN Suffix(name) ELSE S_webm
        path == UploadFileName(upload_id, suffix)
    IN  IF auth.status # 200
        THEN Reply([op |-> "upload", status |-> auth.status, req |-> req])
        ELSE IF ~StartsWith(content_type, S_audio_slash)
        THEN Reply([op |-> "upload", status |-> 400, req |-> req])
        ELSE /\ drawn.f < MaxUploads
             /\ drawn' = [drawn EXCEPT !.f = @ + 1]
             /\ IF io = "ok"
                THEN /\ files' = files \cup {path}
                     /\ upload_paths' =
                          [upload_paths EXCEPT ![worker] =
                             [k \in DOMAIN @ \cup {upload_id} |->
                                IF k = upload_id THEN path ELSE @[k]]]
                     /\ resp' = [op |-> "upload", status |-> 200, req |-> req,
                                 upload_id |-> upload_id, path |-> path]
                     /\ uploaded' = Append(uploaded, [upload_id |-> upload_id,
                                                      path |-> path, worker |-> worker])
                ELSE /\ files' = IF io = "partial" THEN files \cup {path} ELSE files
                     /\ UNCHANGED <<upload_paths, uploaded>>
                     /\ resp' = [op |-> "upload", status |-> 500, req |-> req]
             /\ UNCHANGED <<env, inflight, memory_users, memory_diagnoses, memory_prescriptions,
                            db_users, db_diagnoses, db_prescriptions, now, held,
                            signed_up, confirmed, consumed>>

\* record_transcribe in one of the workers
record_transcribe(Procs, Creds, UploadIds, Speech) ==
  \E worker \in Procs, cred \in Creds, upload_id \in UploadIds, spoken \in Speech,
     whisper \in {"ok", "error"}, unlink \in {"ok", "error"} :
    LET auth == require_doctor(cred, now)
        req == [upload_id |-> upload_id, cred |-> cred, at |-> now, worker |-> worker]
        paths == find_upload_path(worker, upload_id)
        transcript == IF Strip(spoken) = <<>> THEN NO_SPEECH ELSE Strip(spoken)
    IN  IF auth.status # 200
        THEN Reply([op |-> "transcribe", status |-> auth.status, req |-> req])
        ELSE IF paths = {}
        THEN Reply([op |-> "transcribe", status |-> 404, req |-> req])
        ELSE IF env.whisper = "missing"
        THEN Reply([op |-> "transcribe", status |-> 200, req |-> req,
                    transcript |-> STUB_TRANSCRIPT_MESSAGE, upload_id |-> upload_id,
                    is_stub |-> TRUE])
        ELSE IF whisper = "error"
        THEN Reply([op |-> "transcribe", status |-> 500, req |-> req])
        ELSE \E path \in paths :
               /\ files' = IF unlink = "ok" THEN files \ {path} ELSE files
               /\ upload_paths' =
                    [upload_paths EXCEPT ![worker] =
                       [k \in DOMAIN @ \ {upload_id} |-> @[k]]]
               /\ consumed' = IF unlink = "ok" THEN consumed \cup {upload_id} ELSE consumed
               /\ resp' = [op |-> "transcribe", status |-> 200, req |-> req,
                           transcript |-> transcript, upload_id |-> upload_id,
                           is_stub |-> FALSE, path |-> path,
                           deleted |-> (unlink = "ok")]
               /\ UNCHANGED <<env, inflight, memory_users, memory_diagnoses, memory_prescriptions,
                              db_users, db_diagnoses, db_prescriptions, drawn, now,
                              held, signed_up, confirmed, uploaded>>

---------------------------------------------------------------------------
(* POST /diagnosis/analyze, /diagnosis/patient-twin, /diagnosis/generate-pdf *)

\* `not vectorizer or not model`
MlAbsent == env.vectorizer = "none" \/ env.model = "none"

\* the predictions of a loaded model for one probability vector
LoadedPredictions(probs) ==
  IF env.model = "proba"
  THEN {ProbaPredictions(probs, top) : top \in TopIndices(probs)}
  ELSE {PredictOnlyPredictions(i) : i \in DOMAIN probs}

\* the stub AnalyzeResponse returned when the model is not loaded
StubAnswer(symptoms, predictions) ==
  [symptoms |-> symptoms, predictions |-> predictions, common |-> <<>>, edge_cases |-> <<>>]

\* the AnalyzeResponse built from the model's predictions
LoadedAnswer(symptoms, predictions) ==
  [symptoms |-> symptoms, predictions |-> predictions,
   common |-> CommonOf(predictions), edge_cases |-> EdgeCasesOf(predictions)]

diagnosis_analyze(Creds, Transcripts, Vectors) ==
  \E cred \in Creds, transcript \in Transcripts, probs \in Vectors,
     inference \in {"ok", "error"} :
    LET auth == require_doctor(cred, now)
        req == [transcript |-> transcript, cred |-> cred, at |-> now]
    IN  IF auth.status # 200
        THEN Reply([op |-> "analyze", status |-> auth.status, req |-> req])
        ELSE
          \E symptoms \in extract_symptoms_from_transcript(transcript) :
            LET text_for_vec == symptom_text_for_vectorizer(symptoms)
            IN  IF MlAbsent
                THEN Reply([op |-> "analyze", status |-> 200, req |-> req, ml |-> "absent",
                            body |-> StubAnswer(symptoms, StubPredictions)])
                ELSE IF inference = "error"
                THEN Reply([op |-> "analyze", status |-> 500, req |-> req,
                            ml |-> env.model, vectorized |-> text_for_vec,
                            inference |-> "error"])
                ELSE \E predictions \in LoadedPredictions(probs) :
                       Reply([op |-> "analyze", status |-> 200, req |-> req,
                              ml |-> env.model, vectorized |-> text_for_vec,
                              inference |-> "ok",
                              body |-> LoadedAnswer(symptoms, predictions)])

RISK_HIGH_PROB == 70       \* top_prob > 0.7
RISK_MEDIUM_PROB == 40     \* top_prob > 0.4
RISK_HIGH_SYMPTOMS == 4
RISK_MEDIUM_SYMPTOMS == 2
SHOWN_PROB == 5            \* probs[i] > 0.05
TWIN_SYMPTOMS == 10
QR_SYMPTOMS == 5

\* the risk tier computed inside the predict_proba branch
RiskScore(top_prob, n_symptoms) ==
  IF top_prob > RISK_HIGH_PROB \/ n_symptoms >= RISK_HIGH_SYMPTOMS THEN "HIGH"
  ELSE IF top_prob > RISK_MEDIUM_PROB \/ n_symptoms >= RISK_MEDIUM_SYMPTOMS THEN "MEDIUM"
  ELSE "LOW"

\* round(0.7 + 0.03 * i, 2), capped at 0.95, for the first ten symptoms
SymptomsWithConfidence(symptoms) ==
  [k \in 1..Min(TWIN_SYMPTOMS, Len(symptoms)) |->
     [symptom |-> symptoms[k], confidence |-> Min(70 + 3 * (k - 1), 95)]]

RECURSIVE TwinPredictions(_, _)
\* [{disease, probability} for i in top_indices if probs[i] > 0.05]
TwinPredictions(probs, top) ==
  IF top = <<>> THEN <<>>
  ELSE (IF probs[Head(top)] > SHOWN_PROB
        THEN <<[disease |-> ClassLabel(Head(top)), probability |-> probs[Head(top)]]>>
        ELSE <<>>) \o TwinPredictions(probs, Tail(top))

TwinBody(symptoms, predictions, risk_score) ==
  [extracted_symptoms |-> SymptomsWithConfidence(symptoms),
   diagnosis_predictions |-> predictions,
   risk_score |-> risk_score,
   qr_data |-> [symptoms |-> Prefix(symptoms, QR_SYMPTOMS),
                top_diagnosis |-> IF predictions # <<>> THEN predictions[1].disease
                                  ELSE <<"U","n","k","n","o","w","n">>,
                risk |-> risk_score]]

generate_patient_twin(Creds, Transcripts, Vectors) ==
  \E cred \in Creds, transcript \in Transcripts, probs \in Vectors,
     inference \in {"ok", "error"} :
    LET auth == require_doctor(cred, now)
        req == [transcript |-> transcript, cred |-> cred, at |-> now]
    IN  IF auth.status # 200
        THEN Reply([op |-> "patient-twin", status |-> auth.status, req |-> req])
        ELSE
          \E symptoms \in extract_symptoms_from_transcript(transcript) :
            LET text_for_vec == symptom_text_for_vectorizer(symptoms)
            IN  IF MlAbsent \/ text_for_vec = <<>> \/ inference = "error"
                   \/ env.model # "proba"
                THEN Reply([op |-> "patient-twin", status |-> 200, req |-> req,
                            inference |-> IF MlAbsent \/ text_for_vec = <<>> THEN "skipped"
                                          ELSE inference,
                            body |-> TwinBody(symptoms, <<>>, "LOW")])
                ELSE \E top \in TopIndices(probs) :
                       Reply([op |-> "patient-twin", status |-> 200, req |-> req,
                              inference |-> "ok",
                              body |-> TwinBody(symptoms, TwinPredictions(probs, top),
                                                RiskScore(probs[top[1]], Len(symptoms)))])

generate_pdf_endpoint(Creds, Emails, Bodies) ==
  \E cred \in Creds, patient_email \in Emails, b \in Bodies, render \in {"ok", "error"} :
    LET auth == require_doctor(cred, now)
        body == [b EXCEPT !.patient_email = patient_email,
                          !.edge_cases = normalize_edge_cases(b.edge_cases)]
        req == [body |-> body, cred |-> cred, at |-> now]
    IN  IF auth.status # 200
        THEN Reply([op |-> "generate-pdf", status |-> auth.status, req |-> req])
        ELSE IF render = "error"
        THEN Reply([op |-> "generate-pdf", status |-> 500, req |-> req])
        ELSE Reply([op |-> "generate-pdf", status |-> 200, req |-> req,
                    pdf |-> generate_pdf(body, auth.user, now),
                    filename |-> SplitHead(patient_email, "@")])

---------------------------------------------------------------------------
(* POST /diagnosis/confirm.                                                *)

resolve_patient_any_role(patient_email) ==
  LET email_lower == NormalizeEmail(patient_email)
      hit == FindUser(email_lower)
  IN  IF email_lower = <<>> THEN [status |-> 400]
      ELSE IF hit.found THEN [status |-> 200, patient_id |-> hit.doc.id]
      ELSE [status |-> 400]

\* _resolve_patient_id_by_email: the id of the patient with that email, or 400
resolve_patient_id_by_email(patient_email) ==
  LET email_lower == NormalizeEmail(patient_email)
      hit == IF HasDb
             THEN FirstAt(db_users,
                          {k \in DOMAIN db_users :
                             /\ db_users[k].role = "patient"
                             /\ RegexEqI(db_users[k].email, email_lower)})
             ELSE LET kv == FirstAt(memory_users,
                                    {k \in DOMAIN memory_users :
                                       /\ Lower(Strip(memory_users[k].key)) = email_lower
                                       /\ memory_users[k].doc.role = "patient"})
                  IN  IF kv.found THEN [found |-> TRUE, doc |-> kv.doc.doc] ELSE kv
  IN  IF email_lower = <<>> THEN [status |-> 400]
      ELSE IF hit.found THEN [status |-> 200, patient_id |-> hit.doc.id]
      ELSE [status |-> 400]

DictOverwrite(d, key, doc) == [k \in DOMAIN d \cup {key} |-> IF k = key THEN <<doc>> ELSE d[k]]

\* _memory_diagnoses.setdefault(patient_id, []).append(doc)
DictAppend(d, key, doc) ==
  [k \in DOMAIN d \cup {key} |->
     IF k = key THEN (IF key \in DOMAIN d THEN Append(d[key], doc) ELSE <<doc>>)
     ELSE d[k]]

\* the fields of a diagnosis document that both storage modes write
DiagnosisFields(body, patient_id, explanation, user, clock) ==
  [patient_id |-> patient_id,
   symptoms |-> body.symptoms,
   predictions |-> body.predictions,
   edge_cases |-> StoredEdgeCases(body.edge_cases),
   final_diagnosis |-> body.final_diagnosis,
   explanation |-> explanation,
   pdf_data |-> Base64(generate_pdf(body, user, clock)),
   pdf_filename |-> PdfFilename(body.patient_email, clock)]

PrescriptionFieldsUnlinked(body, patient_id, diagnosis_id) ==
  [patient_id |-> patient_id,
   diagnosis_id |-> <<>>,
   medication |-> Get(body.prescription, "medication", <<>>),
   dosage |-> Get(body.prescription, "dosage", <<>>),
   instructions |-> Get(body.prescription, "instructions", <<>>)]

PrescriptionFields(body, patient_id, diagnosis_id) ==
  [patient_id |-> patient_id,
   diagnosis_id |-> diagnosis_id,
   medication |-> Get(body.prescription, "medication", <<>>),
   dosage |-> Get(body.prescription, "dosage", <<>>),
   instructions |-> Get(body.prescription, "instructions", <<>>)]

ConfirmCount == drawn.d

diagnosis_confirm(Creds, Emails, Bodies, Inserts) ==
  \E cred \in Creds, patient_email \in Emails, b \in Bodies, storage \in Inserts :
    LET auth == require_doctor(cred, now)
        body == [b EXCEPT !.patient_email = patient_email,
                          !.edge_cases = normalize_edge_cases(b.edge_cases)]
        req == [body |-> body, cred |-> cred, at |-> now]
        patient == resolve_patient_id_by_email(patient_email)
    IN  IF auth.status # 200
        THEN Reply([op |-> "confirm", status |-> auth.status, req |-> req])
        ELSE IF patient.status # 200
        THEN Reply([op |-> "confirm", status |-> 400, req |-> req])
        ELSE
          \E explanation \in generate_diagnosis_explanation(body.final_diagnosis) :
            LET fields == DiagnosisFields(body, patient.patient_id, explanation,
                                          auth.user, now)
            IN
            /\ ConfirmCount < MaxConfirms
            /\ IF HasDb
               THEN LET diagnosis_oid == drawn.oid
                        prescription_oid == drawn.oid + 1
                        diagnosis_doc ==
                          Extend(fields, [oid |-> diagnosis_oid,
                                          patient_email |-> Lower(Strip(patient_email)),
                                          session_id |-> body.session_id,
                                          created_at |-> now])
                        prescription_doc ==
                          Extend(PrescriptionFields(body, patient.patient_id,
                                                    OidStr(diagnosis_oid)),
                                 [oid |-> prescription_oid])
                    IN  /\ db_diagnoses' = IF storage = "first" THEN db_diagnoses
                                           ELSE Append(db_diagnoses, diagnosis_doc)
                        /\ db_prescriptions' = IF storage = "ok"
                                               THEN Append(db_prescriptions, prescription_doc)
                                               ELSE db_prescriptions
                        /\ drawn' = [drawn EXCEPT
                                       !.d = @ + 1,
                                       !.oid = @ + (CASE storage = "ok" -> 2
                                                      [] storage = "second" -> 1
                                                      [] OTHER -> 0)]
                        /\ resp' = IF storage = "ok"
                                   THEN [op |-> "confirm", status |-> 200, req |-> req,
                                         patient_id |-> patient.patient_id,
                                         diagnosis_id |-> OidStr(diagnosis_oid),
                                         prescription_id |-> OidStr(prescription_oid)]
                                   ELSE [op |-> "confirm", status |-> 500, req |-> req]
                        /\ confirmed' = IF storage = "ok"
                                        THEN Append(confirmed,
                                                    [patient_id |-> patient.patient_id,
                                                     diagnosis_id |-> OidStr(diagnosis_oid),
                                                     prescription_id |-> OidStr(prescription_oid),
                                                     explanation |-> explanation,
                                                     body |-> [b EXCEPT !.patient_email =
                                                                          patient_email]])
                                        ELSE confirmed
                        /\ UNCHANGED <<memory_diagnoses, memory_prescriptions>>
               ELSE LET diagnosis_id == Uuid("d", drawn.d)
                        prescription_id == Uuid("p", drawn.p)
                        diagnosis_doc == Extend(fields, [id |-> diagnosis_id])
                        prescription_doc ==
                          Extend(PrescriptionFields(body, patient.patient_id, diagnosis_id),
                                 [id |-> prescription_id])
                    IN  /\ storage = "ok"
                        /\ memory_diagnoses' =
                             DictAppend(memory_diagnoses, patient.patient_id, diagnosis_doc)
                        /\ memory_prescriptions' =
                             DictAppend(memory_prescriptions, patient.patient_id,
                                        prescription_doc)
                        /\ drawn' = [drawn EXCEPT !.d = @ + 1, !.p = @ + 1]
                        /\ resp' = [op |-> "confirm", status |-> 200, req |-> req,
                                    patient_id |-> patient.patient_id,
                                    diagnosis_id |-> diagnosis_id,
                                    prescription_id |-> prescription_id]
                        /\ confirmed' = Append(confirmed,
                                               [patient_id |-> patient.patient_id,
                                                diagnosis_id |-> diagnosis_id,
                                                prescription_id |-> prescription_id,
                                                explanation |-> explanation,
                                                body |-> [b EXCEPT !.patient_email =
                                                                     patient_email]])
                        /\ UNCHANGED <<db_diagnoses, db_prescriptions>>
            /\ UNCHANGED <<env, inflight, memory_users, db_users, upload_paths, files, now,
                           held, signed_up, upload_history>>

---------------------------------------------------------------------------
(* GET /patient/{patient_id}.                                              *)

\* coll.find({"patient_id": patient_id}): the matching documents, in
\* insertion order
FindByPatient(docs, patient_id) == SelectSeq(docs, LAMBDA d : d.patient_id = patient_id)

\* cursor.sort("_id", -1)
RECURSIVE SortByOidDescending(_)
SortByOidDescending(docs) ==
  IF docs = <<>> THEN <<>>
  ELSE LET top == CHOOSE k \in DOMAIN docs : \A j \in DOMAIN docs : docs[j].oid <= docs[k].oid
       IN  <<docs[top]>>
           \o SortByOidDescending([k \in 1..(Len(docs) - 1) |->
                                     IF k < top THEN docs[k] ELSE docs[k + 1]])

\* doc_to_dict: "_id" leaves, "id" = str(_id) enters
doc_to_dict(d) ==
  [k \in (DOMAIN d \ {"oid"}) \cup {"id"} |-> IF k = "id" THEN OidStr(d.oid) ELSE d[k]]

\* _memory_diagnoses.get(patient_id, [])
MemoryDiagnoses(patient_id) == Get(memory_diagnoses, patient_id, <<>>)

\* _memory_prescriptions.get(patient_id, [])
MemoryPrescriptions(patient_id) == Get(memory_prescriptions, patient_id, <<>>)

\* diagnoses_coll.find({"patient_id": patient_id}).sort("_id", -1)
DbDiagnoses(patient_id) ==
  SortByOidDescending(FindByPatient(db_diagnoses, patient_id))

\* prescriptions_coll.find({"patient_id": patient_id}).sort("_id", -1)
DbPrescriptions(patient_id) ==
  SortByOidDescending(FindByPatient(db_prescriptions, patient_id))

OwnershipCheckMissing(user, patient_id) == FALSE

\* user.get("role") == "patient" and user.get("sub") != patient_id
OwnershipViolated(user, patient_id) == user.role = "patient" /\ user.sub # patient_id

\* whether patient_get asks for a generated explanation
NeedsExplanation(explanation, final_diag) ==
  final_diag # <<>> /\ (explanation = <<>> \/ explanation = final_diag)

patient_get(Creds, PatientIds) ==
  \E cred \in Creds, patient_id \in PatientIds, storage \in {"ok", "error"} :
    LET auth == require_user(cred, now)
        req == [patient_id |-> patient_id, cred |-> cred,
                at |-> now]
        diagnoses == IF HasDb THEN DbDiagnoses(patient_id) ELSE MemoryDiagnoses(patient_id)
        prescriptions == IF HasDb THEN DbPrescriptions(patient_id)
                         ELSE MemoryPrescriptions(patient_id)
        latest == IF diagnoses # <<>> THEN diagnoses[1] ELSE EmptyDict
        edge_cases == PatientEdgeCases(latest)
        stored_explanation == Strip(Get(latest, "explanation", <<>>))
        final_diag == Strip(Get(latest, "final_diagnosis", <<>>))
    IN  IF auth.status # 200
        THEN Reply([op |-> "patient-get", status |-> auth.status, req |-> req])
        ELSE IF OwnershipViolated(auth.user, patient_id)
        THEN Reply([op |-> "patient-get", status |-> 403, req |-> req])
        ELSE IF HasDb /\ storage = "error"
        THEN Reply([op |-> "patient-get", status |-> 500, req |-> req])
        ELSE
          \E ai_explanation \in
               (IF NeedsExplanation(stored_explanation, final_diag)
                THEN generate_diagnosis_explanation(latest.final_diagnosis) ELSE {<<>>}) :
            LET latest_now == IF ai_explanation # <<>>
                              THEN [latest EXCEPT !.explanation = ai_explanation]
                              ELSE latest
                diagnoses_now == IF diagnoses # <<>>
                                 THEN [diagnoses EXCEPT ![1] = latest_now] ELSE diagnoses
                chosen == IF ai_explanation # <<>> THEN ai_explanation ELSE stored_explanation
                explanation == IF chosen = <<>> THEN final_diag ELSE chosen
                common == [patient_id |-> patient_id, explanation |-> explanation,
                           edge_cases |-> edge_cases]
            IN
            /\ storage = "ok"
            /\ IF HasDb
               THEN /\ db_diagnoses' =
                         IF ai_explanation # <<>>
                         THEN [k \in DOMAIN db_diagnoses |->
                                 IF db_diagnoses[k].oid = latest.oid
                                 THEN [db_diagnoses[k] EXCEPT !.explanation = ai_explanation]
                                 ELSE db_diagnoses[k]]
                         ELSE db_diagnoses
                    /\ UNCHANGED memory_diagnoses
                    /\ resp' =
                         [op |-> "patient-get", status |-> 200, req |-> req,
                          body |-> Extend(common,
                             [diagnoses |-> [k \in DOMAIN diagnoses_now |->
                                               doc_to_dict(diagnoses_now[k])],
                              prescriptions |-> [k \in DOMAIN prescriptions |->
                                                   doc_to_dict(prescriptions[k])],
                              pdf_data |-> Get(latest_now, "pdf_data", <<>>),
                              pdf_filename |-> Get(latest_now, "pdf_filename",
                                                   DEFAULT_PDF_FILENAME)])]
               ELSE /\ memory_diagnoses' =
                         IF ai_explanation # <<>>
                         THEN [memory_diagnoses EXCEPT ![patient_id] = diagnoses_now]
                         ELSE memory_diagnoses
                    /\ UNCHANGED db_diagnoses
                    /\ resp' =
                         [op |-> "patient-get", status |-> 200, req |-> req,
                          body |-> Extend(common, [diagnoses |-> diagnoses_now,
                                                   prescriptions |-> prescriptions])]
            /\ UNCHANGED <<env, inflight, memory_users, memory_prescriptions, db_users,
                           db_prescriptions, upload_paths, files, drawn, now, held,
                           history>>

---------------------------------------------------------------------------
(* Requests handled in steps. Worker processes run at the same time, so     *)
(* another worker's store and file operations can fall between two          *)
(* operations of one handler. A worker takes one request and keeps its      *)
(* answer.                                                                  *)

Idle(worker) == inflight[worker].pc = "idle"

\* the handler of a worker returns or raises: the answer goes out
Finish(worker, r) ==
  /\ inflight' = [inflight EXCEPT ![worker] = [pc |-> "done", answer |-> r]]
  /\ resp' = r

\* record_transcribe up to the 404 test: path = _find_upload_path(upload_id)
transcribe_lookup(Procs, Creds, UploadIds) ==
  \E worker \in Procs, cred \in Creds, upload_id \in UploadIds :
    LET auth == require_doctor(cred, now)
        req == [upload_id |-> upload_id, cred |-> cred, at |-> now, worker |-> worker]
        paths == find_upload_path(worker, upload_id)
    IN  /\ Idle(worker)
        /\ IF auth.status # 200
           THEN Finish(worker, [op |-> "transcribe", status |-> auth.status, req |-> req])
           ELSE IF paths = {}
           THEN Finish(worker, [op |-> "transcribe", status |-> 404, req |-> req])
           ELSE \E path \in paths :
                  /\ inflight' = [inflight EXCEPT ![worker] =
                                    [pc |-> "found", req |-> req, path |-> path]]
                  /\ UNCHANGED resp
        /\ UNCHANGED <<env, stores, drawn, now, held, history>>

\* record_transcribe from the import to the transcript: the file is read
transcribe_run(Procs, Speech) ==
  \E worker \in Procs, spoken \in Speech, whisper \in {"ok", "error"} :
    LET call == inflight[worker]
        transcript == IF Strip(spoken) = <<>> THEN NO_SPEECH ELSE Strip(spoken)
    IN  /\ call.pc = "found"
        /\ IF env.whisper = "missing"
           THEN Finish(worker, [op |-> "transcribe", status |-> 200, req |-> call.req,
                                transcript |-> STUB_TRANSCRIPT_MESSAGE,
                                upload_id |-> call.req.upload_id, is_stub |-> TRUE])
           ELSE IF call.path \notin files \/ whisper = "error"
           THEN Finish(worker, [op |-> "transcribe", status |-> 500, req |-> call.req])
           ELSE /\ inflight' = [inflight EXCEPT ![worker] =
                                  [pc |-> "transcribed", req |-> call.req,
                                   path |-> call.path, transcript |-> transcript]]
                /\ UNCHANGED resp
        /\ UNCHANGED <<env, stores, drawn, now, held, history>>

\* record_transcribe from path.unlink(missing_ok=True) to the answer
transcribe_unlink(Procs) ==
  \E worker \in Procs, unlink \in {"ok", "error"} :
    LET call == inflight[worker]
        upload_id == call.req.upload_id
    IN  /\ call.pc = "transcribed"
        /\ files' = IF unlink = "ok" THEN files \ {call.path} ELSE files
        /\ upload_paths' =
             [upload_paths EXCEPT ![worker] = [k \in DOMAIN @ \ {upload_id} |-> @[k]]]
        /\ consumed' = IF unlink = "ok" THEN consumed \cup {upload_id} ELSE consumed
        /\ Finish(worker, [op |-> "transcribe", status |-> 200, req |-> call.req,
                           transcript |-> call.transcript, upload_id |-> upload_id,
                           is_stub |-> FALSE, path |-> call.path,
                           deleted |-> (unlink = "ok")])
        /\ UNCHANGED <<env, memory_users, memory_diagnoses, memory_prescriptions,
                       db_users, db_diagnoses, db_prescriptions, drawn, now,
                       held, signed_up, confirmed, uploaded>>

\* auth_signup up to the existence test
signup_check(Procs, Emails, Passwords, Names, RolesGiven, Salts) ==
  \E worker \in Procs, email \in Emails, password \in Passwords, name \in Names,
     role \in RolesGiven, salt \in Salts :
    LET req == [email |-> email, password |-> password, name |-> name, role |-> role]
        email_normalized == NormalizeEmail(email)
    IN  /\ Idle(worker)
        /\ IF email_normalized = <<>> \/ FindUser(email_normalized).found
           THEN Finish(worker, [op |-> "signup", status |-> 400, req |-> req])
           ELSE /\ inflight' = [inflight EXCEPT ![worker] =
                                  [pc |-> "checked", req |-> req, salt |-> salt]]
                /\ UNCHANGED resp
        /\ UNCHANGED <<env, stores, drawn, now, held, history>>

\* auth_signup from uuid4() to the answer: the user is stored
signup_insert(Procs) ==
  \E worker \in Procs :
    LET call == inflight[worker]
        doc == [id |-> Uuid("u", drawn.u),
                name |-> Strip(call.req.name),
                email |-> NormalizeEmail(call.req.email),
                hashed_password |-> hash_password(call.req.password, call.salt),
                role |-> call.req.role]
        token == create_access_token(TokenData(doc), now)
    IN  /\ call.pc = "checked"
        /\ UserCount < MaxUsers
        /\ IF HasDb
           THEN /\ db_users' = Append(db_users, doc)
                /\ UNCHANGED memory_users
           ELSE /\ memory_users' = DictSet(memory_users, doc.email, doc)
                /\ UNCHANGED db_users
        /\ drawn' = [drawn EXCEPT !.u = @ + 1]
        /\ held' = Extend(held, doc.id :> [tok |-> token, iat |-> now])
        /\ signed_up' = signed_up \cup {[req |-> call.req, user |-> PublicUser(doc)]}
        /\ Finish(worker, [op |-> "signup", status |-> 200, req |-> call.req,
                           access_token |-> token, user |-> PublicUser(doc)])
        /\ UNCHANGED <<env, memory_diagnoses, memory_prescriptions, db_diagnoses,
                       db_prescriptions, upload_paths, files, now, confirmed,
                       upload_history>>

---------------------------------------------------------------------------
(* Request inputs.                                                         *)

Roles == {"doctor", "patient"}

E_doc == <<"d","@","x">>
E_pat == <<"p","@","x">>
E_pat_upper == <<"P","@","X">>
E_other == <<"q","@","x">>
E_nobody == <<"z","@","x">>
E_mixed == <<"D","o","c","@","X",".","c","o","m">>
E_lower == <<"d","o","c","@","x",".","c","o","m">>
E_padded == <<" ","d","o","c","@","x",".","c","o","m"," ">>
E_blank == <<" ">>

N_ann == <<"A","n","n">>
N_ann_padded == <<" ","A","n","n"," ">>

T_flu == <<"F","l","u">>
T_jaundice == <<" ","J","a","u","n","d","i","c","e">>
T_fever == <<"f","e","v","e","r">>
T_rash == <<"r","a","s","h">>
T_rest == <<"r","e","s","t">>
T_pill == <<"p","i","l","l">>
T_hepatitis == <<"H","e","p","a","t","i","t","i","s">>
T_anemia == <<"A","n","e","m","i","a">>
T_see_doctor == <<"s","e","e"," ","a"," ","d","o","c","t","o","r">>

\* a confirm request with no edge cases of its own and a flagged prediction
BodyFlagged ==
  [patient_email |-> <<>>, session_id |-> NoneText, final_diagnosis |-> T_flu,
   prescription |-> [medication |-> T_pill, dosage |-> <<"1">>, instructions |-> T_rest],
   symptoms |-> <<T_fever>>,
   predictions |-> <<[disease |-> T_anemia, confidence |-> 20, is_edge_case |-> TRUE]>>,
   edge_cases |-> <<>>]

\* a confirm request with edge cases, one a dict and one a plain string
BodyEdges ==
  [patient_email |-> <<>>, session_id |-> NoneText, final_diagnosis |-> T_jaundice,
   prescription |-> [medication |-> T_pill, instructions |-> T_rest],
   symptoms |-> <<T_rash, T_fever>>,
   predictions |-> <<[disease |-> T_hepatitis, confidence |-> 80, is_edge_case |-> FALSE]>>,
   edge_cases |-> <<[t |-> "dict", name |-> T_hepatitis, further_steps |-> T_see_doctor],
                    [t |-> "str", v |-> T_anemia]>>]

Bodies == {BodyFlagged, BodyEdges}

\* one probability vector with common and edge-case classes
FewVectors == {Pad(<<60, 29, 5, 3, 2, 1>>)}

\* transcripts with two and with four symptoms
TR_fever_cough == <<"f","e","v","e","r"," ","c","o","u","g","h">>
TR_four == <<"f","e","v","e","r"," ","c","o","u","g","h"," ","r","a","s","h"," ","f","l","u">>

\* transcripts with no, one, two and four symptoms, and the stub transcript
InferTranscripts == {<<>>, T_fever, TR_fever_cough, TR_four, STUB_TRANSCRIPT_MESSAGE}

\* probability vectors whose top entry is above the upper risk threshold, on
\* it, and on the lower one
InferVectors ==
  {<<85, 5, 4, 3, 2, 1>>, <<70, 14, 7, 5, 3, 1>>, <<40, 25, 15, 10, 7, 3>>}

\* transcripts for extraction: keywords in capitals and with padding, five
\* keywords, a keyword that a pattern match repeats, pattern matches with
\* one and with two words, and a two-word match that ends in "ache"
TR_capitals == <<" ","F","E","V","E","R",","," ","C","o","u","g","h"," ">>
TR_five ==
  <<"f","l","u"," ","r","a","s","h"," ","c","o","l","d"," ","c","o","u","g","h"," ","f",
    "e","v","e","r">>
TR_chest_pain == <<"c","h","e","s","t"," ","p","a","i","n">>
TR_knee_pain ==
  <<"K","n","e","e"," ","p","a","i","n",","," ","t","h","e","n"," ","e","l","b","o","w",
    " "," ","a","c","h","e">>
TR_lower_back ==
  <<"m","y"," ","l","o","w","e","r"," ","b","a","c","k"," ","a","c","h","e">>

\* transcripts without a keyword or a pattern match: short, padded and in
\* capitals, with "ache" inside a word, and longer than the fallback keeps
TR_unwell == <<"F","e","e","l","i","n","g"," ","u","n","w","e","l","l">>
TR_padded == <<" "," ","V","e","r","y"," ","T","I","R","E","D"," ","\n">>
TR_moustache == <<"a"," ","m","o","u","s","t","a","c","h","e">>
TR_long ==
  [i \in 1..(FALLBACK_CHARS + 1) |->
     IF i % 7 = 0 THEN " " ELSE IF i % 2 = 0 THEN "Z" ELSE "q"]

\* transcripts that hold the stub transcript: alone, padded, after and before
\* keywords; and one that holds it in lower case only
TR_stub_padded == <<" ">> \o STUB_TRANSCRIPT_MESSAGE \o <<" ">>
TR_stub_after == T_fever \o <<" ">> \o STUB_TRANSCRIPT_MESSAGE
TR_stub_before == STUB_TRANSCRIPT_MESSAGE \o <<" ">> \o TR_chest_pain
TR_stub_lower == Lower(STUB_TRANSCRIPT_MESSAGE)

ExtractTranscripts ==
  {<<>>, E_blank, T_fever, TR_capitals, TR_fever_cough, TR_five, TR_chest_pain,
   TR_knee_pain, TR_lower_back, TR_unwell, TR_padded, TR_moustache, TR_long,
   SubSeq(TR_long, 1, FALLBACK_CHARS), <<" ">> \o TR_long,
   STUB_TRANSCRIPT_MESSAGE, TR_stub_padded, TR_stub_after, TR_stub_before,
   TR_stub_lower}

UserIds == {Uuid("u", n) : n \in 0..(MaxUsers - 1)}

S_audio_wav == <<"a","u","d","i","o","/","w","a","v">>
F_a_wav == <<"a",".","w","a","v">>

\* the ids upload can return, and one that is a glob pattern
UploadIds == {Uuid("f", n) : n \in 0..(MaxUploads - 1)} \cup {<<"*">>}

---------------------------------------------------------------------------
(* Spec: accounts, confirmed diagnoses and the patient dashboard, in both   *)
(* storage modes.                                                          *)

Init == InitWith({"mongo", "none"}, {"proba"}, {"loaded"}, {"installed"})

SignupDoctor == auth_signup({E_doc}, {"pw1"}, {N_ann}, {"doctor"}, {"s1"})
SignupPatient == auth_signup({E_pat, E_other}, {"pw1"}, {N_ann}, {"patient"}, {"s1"})
Login == auth_login({E_doc, E_pat_upper, E_other}, {"pw1"})
Confirm == diagnosis_confirm(DoctorTokens, {E_pat_upper, E_doc, E_nobody}, Bodies, {"ok"})
PatientGet == patient_get(HeldTokens, UserIds)

Next ==
  \/ SignupDoctor \/ SignupPatient \/ Login
  \/ Confirm \/ PatientGet

Spec == Init /\ [][Next]_vars

---------------------------------------------------------------------------
(* Properties of confirm and of the patient dashboard.                     *)

\* a bearer token that carries the service's signature and has not expired
IssuedAndFresh(cred, at) ==
  /\ cred.kind = "jwt"
  /\ cred.sig = Sign(JWT_SECRET, cred.claims)
  /\ NumericDate(at) <= cred.claims.exp

\* the successful confirm calls for one patient, oldest first
ConfirmedFor(patient_id) == SelectSeq(confirmed, LAMBDA c : c.patient_id = patient_id)

\* the diagnoses stored under a patient id, however they were written
StoredDiagnosesOf(patient_id) ==
  IF HasDb THEN {d \in Range(db_diagnoses) : d.patient_id = patient_id}
  ELSE Range(Get(memory_diagnoses, patient_id, <<>>))

\* the last response is a dashboard of a patient whose stored diagnoses all
\* come from successful confirm calls, at least n of them
DashboardAfterConfirms(n) ==
  /\ resp.op = "patient-get"
  /\ resp.status = 200
  /\ Len(ConfirmedFor(resp.req.patient_id)) >= n
  /\ Cardinality(StoredDiagnosesOf(resp.req.patient_id))
       = Len(ConfirmedFor(resp.req.patient_id))

\* the edge-case list of a confirm request as name + further_steps pairs
SubmittedEdgeCases(body) ==
  [k \in DOMAIN body.edge_cases |->
     LET e == body.edge_cases[k]
     IN  IF e.t = "str" THEN [name |-> e.v, further_steps |-> <<>>]
         ELSE [name |-> e.name,
               further_steps |-> IF "further_steps" \in DOMAIN e /\ e.further_steps # NoneText
                                 THEN e.further_steps ELSE <<>>]]

\* the entries of a list of documents that carry an id
WithId(docs, id) == SelectSeq(docs, LAMBDA d : d.id = id)

Reverse(s) == [k \in DOMAIN s |-> s[Len(s) + 1 - k]]

\* C3: after successful confirm calls for a patient, the dashboard shows for
\* the most recently confirmed diagnosis the final_diagnosis and the symptoms
\* that were submitted, and its edge_cases are the submitted edge-case list
\* (name + further_steps), an empty submitted list included.
C3_RoundTrip ==
  DashboardAfterConfirms(1) =>
    LET calls == ConfirmedFor(resp.req.patient_id)
        last == calls[Len(calls)]
        shown == WithId(resp.body.diagnoses, last.diagnosis_id)
    IN  /\ Len(shown) = 1
        /\ shown[1].final_diagnosis = last.body.final_diagnosis
        /\ shown[1].symptoms = last.body.symptoms
        /\ resp.body.edge_cases = SubmittedEdgeCases(last.body)

\* C4: in both storage modes, after two or more confirm calls for a patient
\* the dashboard lists diagnoses and prescriptions newest first, and its
\* explanation and edge_cases are those of the newest diagnosis.
C4_NewestFirst ==
  DashboardAfterConfirms(2) =>
    LET calls == Reverse(ConfirmedFor(resp.req.patient_id))
        newest == resp.body.diagnoses[1]
    IN  /\ [k \in DOMAIN resp.body.diagnoses |-> resp.body.diagnoses[k].id]
             = [k \in DOMAIN calls |-> calls[k].diagnosis_id]
        /\ [k \in DOMAIN resp.body.prescriptions |-> resp.body.prescriptions[k].id]
             = [k \in DOMAIN calls |-> calls[k].prescription_id]
        /\ resp.body.edge_cases = PatientEdgeCases(newest)
        /\ resp.body.explanation =
             (IF Strip(newest.explanation) # <<>> THEN Strip(newest.explanation)
              ELSE Strip(newest.final_diagnosis))

\* a stored user with role patient whose email is the given one, ignoring
\* case and surrounding blanks
PatientWithEmail(email) ==
  \E u \in StoredUsers : u.role = "patient" /\ Lower(Strip(u.email)) = Lower(Strip(email))

\* C7: a confirm call from a doctor whose patient_email matches no user with
\* role patient is answered 400 and leaves the diagnosis and prescription
\* stores as they were, also when a doctor has that email.
C7_ConfirmUnknownPatient ==
  [][(/\ resp'.op = "confirm"
      /\ resp'.status \notin {401, 403}
      /\ ~PatientWithEmail(resp'.req.body.patient_email))
     => /\ resp'.status = 400
        /\ UNCHANGED <<memory_diagnoses, memory_prescriptions,
                       db_diagnoses, db_prescriptions>>]_vars

\* a doctor's confirm for a doctor's email was answered 400
C7_Witness ==
  /\ resp.op = "confirm"
  /\ resp.status = 400
  /\ IssuedAndFresh(resp.req.cred, resp.req.at)
  /\ resp.req.cred.claims.role = "doctor"
  /\ \E u \in StoredUsers :
       u.role = "doctor" /\ Lower(u.email) = Lower(Strip(resp.req.body.patient_email))

\* C9: a dashboard request with a patient's token for another id is answered
\* 403 without diagnosis or prescription data; what a patient is shown is
\* stored under the patient's own id; a doctor's token is never refused.
C9_OwnDashboardOnly ==
  (resp.op = "patient-get" /\ IssuedAndFresh(resp.req.cred, resp.req.at)) =>
    LET user == resp.req.cred.claims
    IN  /\ (user.role = "patient" /\ user.sub # resp.req.patient_id)
             => (resp.status = 403 /\ "body" \notin DOMAIN resp)
        /\ (user.role = "patient" /\ resp.status = 200)
             => /\ \A d \in Range(resp.body.diagnoses) : d.patient_id = user.sub
                /\ \A p \in Range(resp.body.prescriptions) : p.patient_id = user.sub
        /\ user.role = "doctor" => resp.status # 403

\* a patient asked for the dashboard of a patient who has a stored diagnosis
C9_Witness ==
  /\ resp.op = "patient-get"
  /\ resp.status = 403
  /\ resp.req.cred.claims.role = "patient"
  /\ StoredDiagnosesOf(resp.req.patient_id) # {}

---------------------------------------------------------------------------
(* SpecAuth: signup and login with emails that differ in case and padding. *)

AuthSignup ==
  auth_signup({E_mixed, E_padded, E_pat, E_blank}, {"pw1", "pw2"}, {N_ann_padded}, Roles,
              {"s1"})
AuthLogin == auth_login({E_lower, E_mixed, E_pat_upper}, {"pw1", "pw2"})

NextAuth == AuthSignup \/ AuthLogin

SpecAuth == Init /\ [][NextAuth]_vars

\* the stored user documents, one entry per stored record
UserRecords ==
  IF HasDb THEN db_users ELSE [k \in DOMAIN memory_users |-> memory_users[k].doc]

\* two emails that are equal after trimming, ignoring case
SameEmail(a, b) ==
  LET x == Strip(a)
      y == Strip(b)
  IN  /\ Len(x) = Len(y)
      /\ \A i \in DOMAIN x : LowerChar(x[i]) = LowerChar(y[i])

\* C5, first half: no two stored user records have emails that are equal
\* after trimming and ignoring case.
C5_EmailsDistinct ==
  \A i, j \in DOMAIN UserRecords :
    i # j => ~SameEmail(UserRecords[i].email, UserRecords[j].email)

\* C5, second half: a signup whose email matches an existing user's email,
\* ignoring case, is answered 400 and stores nothing.
C5_DuplicateRejected ==
  [][(/\ resp' # resp
      /\ resp'.op = "signup"
      /\ \E k \in DOMAIN UserRecords : SameEmail(UserRecords[k].email, resp'.req.email))
     => (resp'.status = 400 /\ UNCHANGED <<memory_users, db_users>>)]_vars

\* C5: stored emails stay distinct ignoring case and padding, and a signup
\* with an email already stored in another case is rejected with 400.
C5_UniqueEmail == []C5_EmailsDistinct /\ C5_DuplicateRejected

\* one user is stored and a signup with a case variant of its email got 400
C5_Witness ==
  /\ resp.op = "signup"
  /\ resp.status = 400
  /\ \E k \in DOMAIN UserRecords :
       /\ SameEmail(UserRecords[k].email, resp.req.email)
       /\ UserRecords[k].email # resp.req.email

\* two emails that differ at most in the case of their letters
CaseVariant(a, b) ==
  /\ Len(a) = Len(b)
  /\ \A i \in DOMAIN a : LowerChar(a[i]) = LowerChar(b[i])

\* C6: after a successful signup with email E and password P, a login with a
\* case variant of E and password P is answered 200 with the id, role and
\* name the signup returned, and a login with another password 401.
C6_LoginAfterSignup ==
  resp.op = "login" =>
    \A s \in signed_up :
      CaseVariant(s.req.email, resp.req.email) =>
        IF resp.req.password = s.req.password
        THEN /\ resp.status = 200
             /\ resp.user.id = s.user.id
             /\ resp.user.role = s.user.role
             /\ resp.user.name = s.user.name
        ELSE resp.status = 401

\* a login succeeded with an email spelled in another case than at signup
C6_Witness ==
  /\ resp.op = "login"
  /\ resp.status = 200
  /\ \E s \in signed_up :
       /\ CaseVariant(s.req.email, resp.req.email)
       /\ s.req.email # resp.req.email
       /\ s.user.id = resp.user.id

---------------------------------------------------------------------------
(* SpecGate: the six doctor-only endpoints under every kind of credentials. *)

GatePatient == auth_signup({E_pat}, {"pw1"}, {N_ann}, {"patient"}, {"s1"})
GateUpload == record_upload({"A"}, GateCredentials, {S_audio_wav}, {F_a_wav})
GateTranscribe == record_transcribe({"A"}, GateCredentials, {Uuid("f", 0)}, {T_fever})
GateAnalyze == diagnosis_analyze(GateCredentials, {T_fever}, FewVectors)
GateTwin == generate_patient_twin(GateCredentials, {T_fever}, FewVectors)
GatePdf == generate_pdf_endpoint(GateCredentials, {E_pat}, {BodyEdges})
GateConfirm == diagnosis_confirm(GateCredentials, {E_pat}, {BodyEdges}, {"ok"})

NextGate ==
  \/ SignupDoctor \/ GatePatient
  \/ GateUpload \/ GateTranscribe \/ GateAnalyze \/ GateTwin \/ GatePdf \/ GateConfirm

SpecGate == Init /\ [][NextGate]_vars

GatedOps == {"upload", "transcribe", "analyze", "confirm", "generate-pdf", "patient-twin"}

\* C8: on each doctor-only endpoint a request without a token or with an
\* invalid token is answered 401, a request with a valid token of another
\* role 403, and in both cases no file, upload mapping, user, diagnosis or
\* prescription is created, changed or removed.
C8_DoctorGate ==
  [][resp'.op \in GatedOps =>
       LET cred == resp'.req.cred
           valid == IssuedAndFresh(cred, resp'.req.at)
       IN  /\ ~valid => (resp'.status = 401 /\ UNCHANGED stores)
           /\ (valid /\ cred.claims.role # "doctor")
                => (resp'.status = 403 /\ UNCHANGED stores)]_vars

\* a patient's confirm for a stored patient was answered 403
C8_Witness ==
  /\ resp.op = "confirm"
  /\ resp.status = 403
  /\ IssuedAndFresh(resp.req.cred, resp.req.at)
  /\ resp.req.cred.claims.role = "patient"
  /\ PatientWithEmail(resp.req.body.patient_email)

---------------------------------------------------------------------------
(* SpecToken: tokens presented around the end of their lifetime.           *)

TokenLogin == auth_login({E_doc}, {"pw1"})
TokenAnalyze == diagnosis_analyze(TokenCredentials, {T_fever}, FewVectors)
TokenGet == patient_get(TokenCredentials, {Uuid("u", 0)})

NextToken == SignupDoctor \/ TokenLogin \/ Tick \/ TokenAnalyze \/ TokenGet

SpecToken == Init /\ [][NextToken]_vars

ProtectedOps == GatedOps \cup {"patient-get"}

\* the claims a token was issued with, for the user it was issued to
IssuedClaims(id) ==
  LET u == CHOOSE u \in StoredUsers : u.id = id
  IN  [sub |-> u.id, email |-> u.email, role |-> u.role, name |-> u.name]

\* what decode_access_token makes of a held token and of its forgeries at
\* every instant, a token being rejected from `grace` ticks after its
\* lifetime on
DecodesWithin(grace) ==
  \A id \in DOMAIN held :
    \A t \in Instants :
      LET h == held[id]
          decoded == decode_access_token(h.tok, t)
      IN  /\ (h.iat <= t /\ t < h.iat + Lifetime)
               => /\ decoded.kind = "claims"
                  /\ [k \in {"sub", "email", "role", "name"} |-> decoded.claims[k]]
                       = IssuedClaims(id)
          /\ t >= h.iat + Lifetime + grace => decoded = NoUser
          /\ decoded.kind # "raised"
          /\ decode_access_token(ExpiryExtended(h.tok), t) = NoUser
          /\ decode_access_token(SignedWithGuess(h.tok), t) = NoUser
          /\ decode_access_token(GarbageToken, t) = NoUser

\* what a protected route answers to a held token and to its forgeries
RouteWithin(grace) ==
  resp.op \in ProtectedOps =>
    LET cred == resp.req.cred
        at == resp.req.at
    IN  /\ \A id \in DOMAIN held :
             cred = held[id].tok =>
               /\ at < held[id].iat + Lifetime => resp.status # 401
               /\ at >= held[id].iat + Lifetime + grace => resp.status = 401
        /\ (cred.kind = "jwt" /\ cred.sig # Sign(JWT_SECRET, cred.claims))
             => resp.status = 401
        /\ cred.kind = "garbage" => resp.status = 401

\* C10: a token issued by signup or login decodes to the claims it was
\* issued with at every time before issuance + 7 days and is rejected from
\* one second after that on; a token whose signature does not verify is
\* always rejected; rejection is None and a 401, never an exception.
C10_TokenLifetime == DecodesWithin(TicksPerSecond) /\ RouteWithin(TicksPerSecond)

\* C10 as stated: the token is rejected at every time after issuance + 7 days.
C10_RejectedAtOnce == DecodesWithin(1) /\ RouteWithin(1)

\* a held token was presented a second after its lifetime and answered 401
C10_Witness ==
  /\ resp.op \in ProtectedOps
  /\ resp.status = 401
  /\ \E id \in DOMAIN held :
       /\ resp.req.cred = held[id].tok
       /\ resp.req.at >= held[id].iat + Lifetime + TicksPerSecond

---------------------------------------------------------------------------
(* SpecAnalyze: analyze with the model loaded, loaded without              *)
(* probabilities, or absent.                                               *)

InitAnalyze ==
  InitWith({"none"}, {"proba", "predict", "none"}, {"loaded", "none"}, {"installed"})

AnalyzeAny == diagnosis_analyze(DoctorTokens, {T_fever, <<>>}, ProbVectors)

NextAnalyze == SignupDoctor \/ AnalyzeAny

SpecAnalyze == InitAnalyze /\ [][NextAnalyze]_vars

\* an answer of analyze that carries predictions
Analyzed == resp.op = "analyze" /\ resp.status = 200

\* the edge-case flag of every prediction is exactly confidence < 0.3
FlagsMatchConfidence ==
  \A k \in DOMAIN resp.body.predictions :
    LET p == resp.body.predictions[k]
    IN  p.is_edge_case <=> (p.confidence < EDGE_THRESHOLD)

\* C1 as stated: in every answer of analyze, the stub answer included, each
\* prediction has is_edge_case == (confidence < 0.3).
C1_FlagsEverywhere == Analyzed => FlagsMatchConfidence

\* C1: when the model and the vectorizer are loaded, each prediction of
\* analyze has is_edge_case == (confidence < 0.3), with probabilities or with
\* predict only; the stub answer carries confidence 0.0 with the flag false.
C1_FlagsWhenLoaded ==
  Analyzed =>
    IF resp.ml = "absent"
    THEN /\ Len(resp.body.predictions) = 1
         /\ resp.body.predictions[1].confidence = 0
         /\ resp.body.predictions[1].is_edge_case = FALSE
    ELSE FlagsMatchConfidence

\* the model answered with a prediction exactly on the threshold and with
\* one just below it
C1_Witness ==
  /\ Analyzed
  /\ resp.ml = "proba"
  /\ \E k \in DOMAIN resp.body.predictions :
       resp.body.predictions[k].confidence = EDGE_THRESHOLD
  /\ \E k \in DOMAIN resp.body.predictions :
       resp.body.predictions[k].confidence = EDGE_THRESHOLD - 1

\* the labels of the predictions with a given flag, in their order
LabelsFlagged(flag) ==
  LET picked == SelectSeq(resp.body.predictions, LAMBDA p : p.is_edge_case = flag)
  IN  [k \in DOMAIN picked |-> picked[k].disease]

\* common and edge_cases partition the labels of the predictions
ListsPartitionLabels ==
  /\ resp.body.common = LabelsFlagged(FALSE)
  /\ resp.body.edge_cases = LabelsFlagged(TRUE)
  /\ Range(resp.body.common) \cap Range(resp.body.edge_cases) = {}
  /\ \A k \in DOMAIN resp.body.predictions :
       resp.body.predictions[k].disease
         \in Range(resp.body.common) \cup Range(resp.body.edge_cases)

\* C2: in every answer of analyze, the stub answer included, common and
\* edge_cases partition the labels of predictions: common holds exactly the
\* labels of the predictions not flagged, edge_cases exactly those of the
\* flagged ones, and no label is in both.
C2_PartitionEverywhere == Analyzed => ListsPartitionLabels

---------------------------------------------------------------------------
(* SpecInfer: analyze and patient-twin with the model loaded, loaded        *)
(* without probabilities, or absent, and with inference that can raise.    *)

InferAnalyze == diagnosis_analyze(DoctorTokens, InferTranscripts, InferVectors)

InferTwin == generate_patient_twin(DoctorTokens, InferTranscripts, InferVectors)

NextInfer == SignupDoctor \/ InferAnalyze \/ InferTwin

SpecInfer == InitAnalyze /\ [][NextInfer]_vars

\* a request that passed the doctor gate
PassedGate == require_doctor(resp.req.cred, resp.req.at).status = 200

\* C11: when the model or the vectorizer is not loaded, analyze answers 200
\* for every transcript, with exactly one prediction (label "Unknown (model
\* not loaded)", confidence 0.0, is_edge_case false) and with the symptoms
\* extracted from the transcript.
C11_StubWhenAbsent ==
  (resp.op = "analyze" /\ PassedGate /\ MlAbsent) =>
     /\ resp.status = 200
     /\ resp.body.predictions =
          << [disease |-> UNKNOWN_LABEL, confidence |-> 0, is_edge_case |-> FALSE] >>
     /\ resp.body.symptoms \in extract_symptoms_from_transcript(resp.req.transcript)

\* analyze answered a transcript with several symptoms while the model was
\* not loaded
C11_Witness ==
  /\ resp.op = "analyze"
  /\ PassedGate
  /\ MlAbsent
  /\ resp.status = 200
  /\ resp.req.transcript = TR_four
  /\ Len(resp.body.symptoms) = 4

\* an inference that the vectorizer or the model answered by raising
InferenceRaised ==
  /\ resp.op \in {"analyze", "patient-twin"}
  /\ PassedGate
  /\ ~MlAbsent
  /\ "inference" \in DOMAIN resp
  /\ resp.inference = "error"

\* C12: on analyze and on patient-twin, when the model and the vectorizer are
\* loaded and inference raises, the request ends with HTTP 500 and never
\* with a successful, degraded answer.
C12_InferenceErrorIs500 == InferenceRaised => resp.status = 500

\* the risk tier as a function of the symptom count and the top confidence
ClaimedRisk(n, c) ==
  IF c > 70 \/ n >= 4 THEN "HIGH"
  ELSE IF c > 40 \/ n >= 2 THEN "MEDIUM"
  ELSE "LOW"

\* the confidence of the top prediction of a patient twin, 0 without one
TopConfidence(twin) ==
  IF twin.diagnosis_predictions = <<>> THEN 0
  ELSE twin.diagnosis_predictions[1].probability

\* C13: for every patient-twin answer, risk_score is HIGH if the top
\* confidence c > 0.7 or the symptom count n >= 4, otherwise MEDIUM if
\* c > 0.4 or n >= 2, otherwise LOW, whether or not the model is loaded,
\* supports probabilities, or inference succeeded.
C13_RiskFromCountAndConfidence ==
  (resp.op = "patient-twin" /\ resp.status = 200) =>
     resp.body.risk_score =
       ClaimedRisk(Len(resp.body.extracted_symptoms), TopConfidence(resp.body))

---------------------------------------------------------------------------
(* SpecUpload: upload and transcribe handled one request at a time by       *)
(* worker processes that share DATA_DIR, with and without faster-whisper.  *)

InitUpload == InitWith({"none"}, {"proba"}, {"loaded"}, {"installed", "missing"})

Upload == record_upload(Workers, DoctorTokens, {S_audio_wav}, {F_a_wav})

Transcribe == record_transcribe(Workers, DoctorTokens, UploadIds, {T_fever})

NextUpload == SignupDoctor \/ Upload \/ Transcribe

SpecUpload == InitUpload /\ [][NextUpload]_vars

\* the upload ids that upload has returned
ReturnedIds == {uploaded[k].upload_id : k \in DOMAIN uploaded}

\* the stored files that belong to an upload id
FilesOf(upload_id) ==
  {f \in files : StartsWith(f, S_upload_ \o upload_id \o <<".">>)}

\* C14: after a transcribe of a returned upload id U gave a real transcript
\* and deleted the file, every later transcribe of U, by any worker, also one
\* whose mapping still lists U, is answered 404.
C14_ConsumedOnce ==
  [][(/\ resp'.op = "transcribe"
      /\ require_doctor(resp'.req.cred, resp'.req.at).status = 200
      /\ resp'.req.upload_id \in ReturnedIds
      /\ resp'.req.upload_id \in consumed)
     => resp'.status = 404]_vars

\* a consumed upload was asked for again in the worker whose mapping still
\* lists it
C14_Witness ==
  /\ resp.op = "transcribe"
  /\ resp.status = 404
  /\ resp.req.upload_id \in ReturnedIds
  /\ resp.req.upload_id \in consumed
  /\ resp.req.upload_id \in DOMAIN upload_paths[resp.req.worker]

\* no two successful uploads share an upload id or a stored file, and no two
\* stored files belong to one upload id
UploadsDistinct ==
  /\ \A i, j \in DOMAIN uploaded :
       i # j => /\ uploaded[i].upload_id # uploaded[j].upload_id
                /\ uploaded[i].path # uploaded[j].path
  /\ \A k \in DOMAIN uploaded : Cardinality(FilesOf(uploaded[k].upload_id)) <= 1

\* a successful upload stores into a file that did not exist, under an id
\* that was not returned before
UploadIsFresh ==
  [][(resp'.op = "upload" /\ resp'.status = 200)
     => /\ resp'.path \notin files
        /\ resp'.path \in files'
        /\ resp'.upload_id \notin ReturnedIds]_vars

\* C15: every successful upload returns an upload id different from every id
\* returned before and stores the content in a file no earlier upload
\* created; no two stored files share an upload id.
C15_DistinctUploads == []UploadsDistinct /\ UploadIsFresh

\* two uploads of the same file succeeded and both files are stored
C15_Witness ==
  /\ Len(uploaded) = 2
  /\ resp.op = "upload"
  /\ resp.status = 200
  /\ \A k \in DOMAIN uploaded : uploaded[k].path \in files

\* C16: an upload handled by one worker, then a transcribe of the returned
\* id handled by another worker, locates the file (no 404) as long as the
\* file has not been consumed.
C16_HandoffAcrossWorkers ==
  (/\ resp.op = "transcribe"
   /\ PassedGate
   /\ \E k \in DOMAIN uploaded :
        /\ uploaded[k].upload_id = resp.req.upload_id
        /\ uploaded[k].worker # resp.req.worker
        /\ uploaded[k].path \in files \/ ("path" \in DOMAIN resp /\ resp.deleted))
  => resp.status # 404

\* a worker that did not handle the upload, and has no mapping for it,
\* transcribed it
C16_Witness ==
  /\ resp.op = "transcribe"
  /\ resp.status = 200
  /\ ~resp.is_stub
  /\ \E k \in DOMAIN uploaded :
       /\ uploaded[k].upload_id = resp.req.upload_id
       /\ uploaded[k].worker # resp.req.worker
       /\ resp.path = uploaded[k].path

---------------------------------------------------------------------------
(* SpecExtract: extract_symptoms_from_transcript applied to transcripts.    *)

InitExtract == InitWith({"none"}, {"none"}, {"none"}, {"missing"})

ExtractAny == Extract(ExtractTranscripts)

NextExtract == ExtractAny

SpecExtract == InitExtract /\ [][NextExtract]_vars

\* an answer of extract_symptoms_from_transcript
Extracted == resp.op = "extract"

\* C17: for every transcript that contains the stub transcript anywhere,
\* extract_symptoms_from_transcript returns the empty list, also when the
\* transcript contains symptom keywords.
C17_StubGivesNoSymptoms ==
  (Extracted /\ Contains(resp.req.transcript, STUB_TRANSCRIPT_MESSAGE))
     => resp.symptoms = <<>>

\* the stub transcript came with a keyword and a pattern match around it
C17_Witness ==
  /\ Extracted
  /\ resp.req.transcript \in {TR_stub_after, TR_stub_before}
  /\ resp.symptoms = <<>>

\* the text has no vocabulary keyword as a substring
NoKeyword(text) == \A k \in DOMAIN SYMPTOM_KEYWORDS : ~Contains(text, SYMPTOM_KEYWORDS[k])

\* the text has no "<one or two words> pain|ache" match
NoPainMatch(text) == \A i \in DOMAIN text : ~PainMatchAt(text, i).ok

\* C18: for every transcript that is non-empty after trimming, does not
\* contain the stub transcript, contains no vocabulary keyword and has no
\* "<one-or-two words> pain|ache" match, extract_symptoms_from_transcript
\* returns exactly one element: the first 200 characters of the lower-cased,
\* trimmed transcript.
C18_FallbackPseudoSymptom ==
  LET text == Lower(Strip(resp.req.transcript))
  IN  (/\ Extracted
       /\ text # <<>>
       /\ ~Contains(resp.req.transcript, STUB_TRANSCRIPT_MESSAGE)
       /\ NoKeyword(text)
       /\ NoPainMatch(text))
      => /\ Len(resp.symptoms) = 1
         /\ resp.symptoms[1] = SubSeq(text, 1, Min(200, Len(text)))

\* a padded transcript with capitals that is longer than 200 characters
\* came back cut, trimmed and in lower case
C18_Witness ==
  /\ Extracted
  /\ resp.req.transcript = <<" ">> \o TR_long
  /\ Len(resp.symptoms) = 1
  /\ Len(resp.symptoms[1]) = FALLBACK_CHARS
  /\ resp.symptoms[1][2] = "z"

\* the keywords found in the text, in vocabulary order
RECURSIVE KeywordsInOrder(_, _)
KeywordsInOrder(text, k) ==
  IF k > Len(SYMPTOM_KEYWORDS) THEN <<>>
  ELSE (IF Contains(text, SYMPTOM_KEYWORDS[k]) THEN <<SYMPTOM_KEYWORDS[k]>> ELSE <<>>)
       \o KeywordsInOrder(text, k + 1)

\* a list without its repeated elements, first occurrences kept
RECURSIVE Dedup(_, _)
Dedup(list, seen) ==
  IF list = <<>> THEN <<>>
  ELSE IF Head(list) \in seen THEN Dedup(Tail(list), seen)
  ELSE <<Head(list)>> \o Dedup(Tail(list), seen \cup {Head(list)})

\* the keywords in vocabulary order, then the pattern matches in order of
\* occurrence, without duplicates
InsertionOrder(transcript) ==
  LET text == Strip(Lower(transcript))
  IN  Dedup(KeywordsInOrder(text, 1) \o PainMatches(text, 1), {})

\* C19: extract_symptoms_from_transcript returns its symptoms without
\* duplicates and in insertion order: the keywords in vocabulary order, then
\* the "<words> pain" matches in order of occurrence.
C19_InsertionOrder ==
  (/\ Extracted
   /\ Strip(resp.req.transcript) # <<>>
   /\ ~Contains(resp.req.transcript, STUB_TRANSCRIPT_MESSAGE)
   /\ InsertionOrder(resp.req.transcript) # <<>>)
  => resp.symptoms = InsertionOrder(resp.req.transcript)

---------------------------------------------------------------------------
(* SpecConfirm: confirm calls whose patient_email differs from the stored   *)
(* email in case and in surrounding blanks, in both storage modes, with a   *)
(* prescription insert that can fail after the diagnosis was inserted.      *)

E_pat_padded == <<" ","P","@","x"," ">>

ConfirmSignupPatient == auth_signup({E_pat}, {"pw1"}, {N_ann}, {"patient"}, {"s1"})

ConfirmPatient ==
  diagnosis_confirm(DoctorTokens, {E_pat_upper, E_pat_padded, E_doc, E_nobody},
                    {BodyFlagged}, {"ok", "second"})

NextConfirm == SignupDoctor \/ ConfirmSignupPatient \/ ConfirmPatient

SpecConfirm == Init /\ [][NextConfirm]_vars

\* every stored diagnosis document, in either mode
AllStoredDiagnoses ==
  IF HasDb THEN Range(db_diagnoses)
  ELSE UNION {Range(memory_diagnoses[k]) : k \in DOMAIN memory_diagnoses}

\* the stored users with role patient that have the given id
PatientsWithId(patient_id) ==
  {u \in StoredUsers : u.id = patient_id /\ u.role = "patient"}

\* every stored diagnosis refers to an existing user with role patient
PatientReferenceResolves ==
  \A d \in AllStoredDiagnoses : PatientsWithId(d.patient_id) # {}

\* C20: every stored diagnosis record's patient_id is the id of an existing
\* user with role patient, and a confirm call stores its record under the id
\* of the patient whose email equals the request's patient_email after
\* trimming surrounding white space, ignoring case.
C20_PatientReference ==
  /\ []PatientReferenceResolves
  /\ [][resp'.op = "confirm" =>
          \A d \in AllStoredDiagnoses' \ AllStoredDiagnoses :
            \E u \in PatientsWithId(d.patient_id) :
              Lower(u.email) = Lower(Strip(resp'.req.body.patient_email))]_vars

\* a confirm call with a padded patient_email in capitals stored a diagnosis
C20_Witness ==
  /\ resp.op = "confirm"
  /\ resp.status = 200
  /\ resp.req.body.patient_email = E_pat_padded
  /\ \E d \in AllStoredDiagnoses :
       /\ d.patient_id = resp.patient_id
       /\ PatientsWithId(d.patient_id) # {}

\* C20 as stated: the record is stored under the id of the patient whose
\* email equals the request's patient_email ignoring case only.
C20_EqualIgnoringCase ==
  /\ []PatientReferenceResolves
  /\ [][resp'.op = "confirm" =>
          \A d \in AllStoredDiagnoses' \ AllStoredDiagnoses :
            \E u \in PatientsWithId(d.patient_id) :
              Lower(u.email) = Lower(resp'.req.body.patient_email)]_vars

\* every stored prescription document, in either mode
AllStoredPrescriptions ==
  IF HasDb THEN Range(db_prescriptions)
  ELSE UNION {Range(memory_prescriptions[k]) : k \in DOMAIN memory_prescriptions}

\* the id under which a stored diagnosis is referred to
DiagnosisIdOf(d) == IF HasDb THEN OidStr(d.oid) ELSE d.id

\* the stored prescriptions that refer to a diagnosis
PrescriptionsOf(d) ==
  {p \in AllStoredPrescriptions : p.diagnosis_id = DiagnosisIdOf(d)}

\* every prescription names an existing diagnosis of the same patient
PrescriptionsLinked ==
  \A p \in AllStoredPrescriptions :
    \E d \in AllStoredDiagnoses :
      DiagnosisIdOf(d) = p.diagnosis_id /\ d.patient_id = p.patient_id

\* a successful confirm call adds one diagnosis and one prescription
ConfirmAddsOnePair ==
  (resp'.op = "confirm" /\ resp'.status = 200) =>
    /\ Cardinality(AllStoredDiagnoses' \ AllStoredDiagnoses) = 1
    /\ Cardinality(AllStoredPrescriptions' \ AllStoredPrescriptions) = 1
    /\ AllStoredDiagnoses \subseteq AllStoredDiagnoses'
    /\ AllStoredPrescriptions \subseteq AllStoredPrescriptions'

\* the diagnoses that successful confirm calls created
ConfirmedDiagnoses ==
  {d \in AllStoredDiagnoses :
     \E k \in DOMAIN confirmed : confirmed[k].diagnosis_id = DiagnosisIdOf(d)}

\* C21: each successful confirm creates exactly one diagnosis and exactly one
\* prescription; each prescription's diagnosis_id names an existing diagnosis
\* with the same patient_id; each diagnosis is referenced by at most one
\* prescription, and by exactly one when the confirm call that created it
\* succeeded (a diagnosis whose prescription insert failed stays without one).
C21_OneToOne ==
  /\ [][ConfirmAddsOnePair]_vars
  /\ [](/\ PrescriptionsLinked
        /\ \A d \in AllStoredDiagnoses : Cardinality(PrescriptionsOf(d)) <= 1
        /\ \A d \in ConfirmedDiagnoses : Cardinality(PrescriptionsOf(d)) = 1)

\* two confirm calls succeeded and both pairs are stored
C21_Witness ==
  /\ resp.op = "confirm"
  /\ resp.status = 200
  /\ Len(confirmed) = 2
  /\ Cardinality(ConfirmedDiagnoses) = 2
  /\ Cardinality(AllStoredPrescriptions) = 2

\* C21 as stated: in every reachable state each diagnosis is referenced by
\* exactly one prescription.
C21_ExactlyOnePrescription ==
  \A d \in AllStoredDiagnoses : Cardinality(PrescriptionsOf(d)) = 1

---------------------------------------------------------------------------
(* Properties of the dashboard's fields and of stored diagnoses, in Spec.   *)

\* the fields of a dashboard answer
DASHBOARD_FIELDS ==
  {"diagnoses", "prescriptions", "explanation", "edge_cases", "pdf_data", "pdf_filename"}

\* C22: in both storage modes a successful GET /patient/{patient_id} answer
\* has the fields diagnoses, prescriptions, explanation, edge_cases, pdf_data
\* and pdf_filename, the last two being those of the patient's latest
\* (most recently confirmed) diagnosis.
C22_DashboardFields ==
  (resp.op = "patient-get" /\ resp.status = 200) =>
    /\ DASHBOARD_FIELDS \subseteq DOMAIN resp.body
    /\ DashboardAfterConfirms(1) =>
         LET calls == ConfirmedFor(resp.req.patient_id)
             shown == WithId(resp.body.diagnoses, calls[Len(calls)].diagnosis_id)
         IN  /\ Len(shown) = 1
             /\ resp.body.pdf_data = shown[1].pdf_data
             /\ resp.body.pdf_filename = shown[1].pdf_filename

\* C23: in analyze, whenever the vectorizer is invoked (model and vectorizer
\* loaded) the text passed to it is non-empty, for every accepted transcript,
\* the empty, blank and stub transcripts included.
C23_VectorizerInputNonEmpty ==
  (resp.op = "analyze" /\ "vectorized" \in DOMAIN resp) => resp.vectorized # <<>>

---------------------------------------------------------------------------
(* SpecFrame: every endpoint, called by signed-up users, in both storage    *)
(* modes: what each call leaves as it was.                                  *)

FrameUploads == 1    \* uploads that are taken in SpecFrame

FrameLogin == auth_login({E_doc}, {"pw1"})
FrameUpload ==
  /\ drawn.f < FrameUploads
  /\ record_upload({"A"}, DoctorTokens, {S_audio_wav}, {F_a_wav})
FrameTranscribe == record_transcribe({"A"}, DoctorTokens, {Uuid("f", 0)}, {T_fever})
FrameAnalyze == diagnosis_analyze(DoctorTokens, {T_fever}, FewVectors)
FrameTwin == generate_patient_twin(DoctorTokens, {T_fever}, FewVectors)
FramePdf == generate_pdf_endpoint(DoctorTokens, {E_pat}, {BodyFlagged})
FrameConfirm == diagnosis_confirm(DoctorTokens, {E_pat_upper}, {BodyFlagged}, {"ok"})
FrameGet == patient_get(DoctorTokens, {Uuid("u", 0), Uuid("u", 1)})

NextFrame ==
  \/ SignupDoctor \/ ConfirmSignupPatient \/ FrameLogin
  \/ FrameUpload \/ FrameTranscribe \/ FrameAnalyze \/ FrameTwin \/ FramePdf
  \/ FrameConfirm \/ FrameGet

SpecFrame == Init /\ [][NextFrame]_vars

\* the diagnosis patient_get treats as the latest one of a patient
TreatedAsLatest(patient_id) ==
  LET diagnoses == IF HasDb THEN DbDiagnoses(patient_id) ELSE MemoryDiagnoses(patient_id)
  IN  IF diagnoses # <<>> THEN {diagnoses[1]} ELSE {}

\* the stored diagnosis d is still stored as e, with every field but
\* explanation as it was
KeptAs(d, e) ==
  /\ DiagnosisIdOf(e) = DiagnosisIdOf(d)
  /\ DOMAIN e = DOMAIN d
  /\ \A f \in DOMAIN d \ {"explanation"} : e[f] = d[f]

\* C24: a stored diagnosis is never removed and none of its fields other
\* than explanation changes under any call; only patient-get changes an
\* explanation, only that of the record it treats as latest, and only when
\* the stored explanation is empty or equal to the final diagnosis text
\* (both compared without surrounding white space).
C24_DiagnosisImmutable ==
  [][\A d \in AllStoredDiagnoses :
       \E e \in AllStoredDiagnoses' :
         /\ KeptAs(d, e)
         /\ e.explanation # d.explanation =>
              /\ resp'.op = "patient-get"
              /\ d \in TreatedAsLatest(resp'.req.patient_id)
              /\ Strip(d.final_diagnosis) # <<>>
              /\ \/ Strip(d.explanation) = <<>>
                 \/ Strip(d.explanation) = Strip(d.final_diagnosis)]_vars

\* a diagnosis confirmed without explanation carries one after a dashboard
\* call, while a second diagnosis is stored
C24_Witness ==
  /\ resp.op = "patient-get"
  /\ resp.status = 200
  /\ Cardinality(AllStoredDiagnoses) = 2
  /\ \E d \in AllStoredDiagnoses :
       /\ d.explanation # <<>>
       /\ resp.body.explanation = d.explanation
       /\ \E k \in DOMAIN confirmed :
            /\ confirmed[k].diagnosis_id = DiagnosisIdOf(d)
            /\ confirmed[k].explanation = <<>>

ReadOnlyOps == {"analyze", "patient-twin", "generate-pdf"}

\* C28: analyze, patient-twin and generate-pdf are read-only: whether the
\* request succeeds or fails, the user store, the diagnosis store, the
\* prescription store, the upload mapping and the uploaded files are as
\* they were.
C28_ReadOnly ==
  [][resp'.op \in ReadOnlyOps => UNCHANGED stores]_vars

\* a read-only call was answered, with success or with 500, while users, a
\* diagnosis, a prescription, an upload mapping and a file were stored
C28_Witness ==
  /\ resp.op \in ReadOnlyOps
  /\ resp.status \in {200, 500}
  /\ Cardinality(StoredUsers) = 2
  /\ AllStoredDiagnoses # {}
  /\ AllStoredPrescriptions # {}
  /\ \E w \in Workers : DOMAIN upload_paths[w] # {}
  /\ files # {}

---------------------------------------------------------------------------
(* Properties of the upload id that transcribe is given, in SpecUpload.     *)

\* C27: transcribe locates a file only when the request's upload_id is
\* exactly an id that upload returned; for every other upload_id, "*"
\* included, it answers 404 and reads and deletes no upload's file.
C27_ExactIdOnly ==
  (resp.op = "transcribe" /\ resp.req.upload_id \notin ReturnedIds)
    => /\ resp.status = 404
       /\ "path" \notin DOMAIN resp

---------------------------------------------------------------------------
(* SpecRace: two worker processes, each handling one transcribe or signup   *)
(* request in steps, with the durable store.                                *)

InitRace == InitWith({"mongo"}, {"none"}, {"none"}, {"installed", "missing"})

RaceUpload == record_upload(Workers, DoctorTokens, {S_audio_wav}, {F_a_wav})
RaceLookup == transcribe_lookup(Workers, DoctorTokens, {Uuid("f", 0)})
RaceRun == transcribe_run(Workers, {T_fever})
RaceUnlink == transcribe_unlink(Workers)
RaceCheck == signup_check(Workers, {E_pat, E_pat_upper}, {"pw1"}, {N_ann}, {"patient"}, {"s1"})
RaceInsert == signup_insert(Workers)

NextRace ==
  \/ SignupDoctor \/ RaceUpload
  \/ RaceLookup \/ RaceRun \/ RaceUnlink
  \/ RaceCheck \/ RaceInsert

SpecRace == InitRace /\ [][NextRace]_vars

\* the answers the workers gave
Answers == {inflight[w].answer : w \in {v \in Workers : inflight[v].pc = "done"}}

\* the workers that answered a transcribe request with a real transcript
RealTranscripts(upload_id) ==
  {w \in Workers :
     /\ inflight[w].pc = "done"
     /\ inflight[w].answer.op = "transcribe"
     /\ inflight[w].answer.status = 200
     /\ ~inflight[w].answer.is_stub
     /\ inflight[w].answer.req.upload_id = upload_id}

\* C25: of two transcribe requests for the same upload_id handled by
\* different workers, lookup, transcription and deletion being separate
\* steps, at most one is answered with a real transcript.
C25_OneRealTranscript ==
  \A upload_id \in ReturnedIds : Cardinality(RealTranscripts(upload_id)) <= 1

\* the workers whose signup request succeeded
SignedUpBy(email) ==
  {w \in Workers :
     /\ inflight[w].pc = "done"
     /\ inflight[w].answer.op = "signup"
     /\ inflight[w].answer.status = 200
     /\ Lower(Strip(inflight[w].answer.req.email)) = Lower(Strip(email))}

\* C26: in durable-store mode, of two concurrent signup requests with
\* case-insensitively equal emails, the existence check and the insert
\* being separate store operations, at most one succeeds and the users
\* collection never holds two records with case-insensitively equal emails.
C26_SignupNeedsNoAtomicity ==
  /\ Cardinality(SignedUpBy(E_pat)) <= 1
  /\ \A j, k \in DOMAIN db_users :
       Lower(db_users[j].email) = Lower(db_users[k].email) => j = k

---------------------------------------------------------------------------
(* Properties of rejected signups, in SpecAuth.                             *)

\* the passwords the requests of SpecAuth carry
AuthPasswords == {"pw1", "pw2"}

\* every user is stored as the successful signup created it: id, name, role
\* and a password hash that verifies the signup's password and no other
StoredAsSignedUp ==
  \A s \in signed_up :
    \E k \in DOMAIN UserRecords :
      LET u == UserRecords[k]
      IN  /\ u.id = s.user.id
          /\ u.name = s.user.name
          /\ u.role = s.user.role
          /\ \A p \in AuthPasswords :
               verify_password(p, u.hashed_password) <=> p = s.req.password

\* a login for a signed-up email succeeds with the signup's password, with
\* the signup's id and role, and fails with 401 with any other password
LoginAsSignedUp ==
  resp.op = "login" =>
    \A s \in signed_up :
      SameEmail(s.req.email, resp.req.email) =>
        IF resp.req.password = s.req.password
        THEN resp.status = 200 /\ resp.user.id = s.user.id /\ resp.user.role = s.user.role
        ELSE resp.status = 401

\* C29: a signup answered 400 leaves the user store as it was; the existing
\* user's id, name, role and password hash are not overwritten, so a later
\* login with the original password succeeds with the original id and role
\* and a login with the rejected request's password is answered 401.
C29_RejectedSignupKeepsUser ==
  /\ [][(resp'.op = "signup" /\ resp'.status = 400)
          => UNCHANGED <<memory_users, db_users>>]_vars
  /\ [](StoredAsSignedUp /\ LoginAsSignedUp)

\* a signup with a stored user's email, another password and another role
\* was answered 400 and the user verifies the original password only
C29_Witness ==
  /\ resp.op = "signup"
  /\ resp.status = 400
  /\ \E s \in signed_up :
       /\ SameEmail(s.req.email, resp.req.email)
       /\ s.req.password # resp.req.password
       /\ s.req.role # resp.req.role
       /\ \E k \in DOMAIN UserRecords :
            /\ UserRecords[k].id = s.user.id
            /\ verify_password(s.req.password, UserRecords[k].hashed_password)
            /\ ~verify_password(resp.req.password, UserRecords[k].hashed_password)

====
